---- MODULE Spec2Model ----
(***************************************************************************)
(* State-machine model of the two task runners of the repository:          *)
(*   scripts/agentflow.py        (cursor + per-task history, state.json)   *)
(*   scripts/agent_csv_runner.py (completed ids + sessions, state.json)    *)
(* A behaviour is one or more runs of one runner over one task list; a run *)
(* may be killed at any step and restarted with --resume.                  *)
(***************************************************************************)
EXTENDS Integers, Sequences, FiniteSets, TLC

VARIABLES
    runner,        \* "agentflow" | "csv": which script this behaviour runs
    args,          \* command line: engine, fallback (raw list), resume, gemini_resume
    cfg,           \* csv: the merged configuration (DEFAULTS + config.json)
    tasks,         \* rows of the task list, in file order
    after_prompts, \* follow-up prompts, in file order
    pc,            \* position of the run
    cursor,        \* agentflow: main()'s / run_task()'s local cursor
    state,         \* the in-memory state document
    stateFile,     \* state.json on disk
    tmpFile,       \* agentflow: state.tmp on disk
    handoff,       \* agentflow: the handoff file of each task, on disk
    backup,        \* agentflow: the latest state.corrupt.<stamp>.json on disk
    wr,            \* progress of the state write in hand: "idle" | "open" | "written"
    loc,           \* locals of run_task (agentflow) or of main's row body (csv)
    pause,         \* the PAUSE marker exists
    stop,          \* the STOP marker exists
    kills,         \* number of kills so far
    toggles,       \* number of times a marker was created or removed during the run
    held,          \* the PAUSE marker was seen by a poll and has been present ever since
    ranBefore,     \* invocations whose StepRecord was completed in a run that was killed
    invalidArg,    \* agentflow: tasks a gemini call of which failed with INVALID_ARGUMENT
    calls,         \* csv: the backend calls made for the current row in this run, in order
    fails,         \* number of backend calls that failed so far
    exitCode       \* exit status of the last run that returned, -1 if none

vars == <<runner, args, cfg, tasks, after_prompts, pc, cursor, state, stateFile,
          tmpFile, handoff, invalidArg, backup, wr, loc, pause, stop, kills, ranBefore,
          toggles, held, calls, fails, exitCode>>

---------------------------------------------------------------------------
(* Bounds of the model *)

NumTasks == 2
NumAfter == 2
\* Faults the environment injects in one behaviour: kills and failing backend calls.
MaxFaults == 2
\* Creations and removals of the PAUSE and STOP markers in one behaviour
MaxToggles == 3
\* Lines of one gemini stream
MaxEvents == 3
\* Lines a child process of run_process writes
MaxLines == 12
\* _MAX_CAPTURE_CHARS of agentflow.py, scaled down
MAX_CAPTURE_CHARS == 10

---------------------------------------------------------------------------
(* Values *)

NONE == "none"

Engines == {"codex", "claude", "gemini"}

\* normalize_engine(): aliases to the three engine names
normalize_engine(name) ==
    CASE name \in {"codex", "openai", "oai"} -> "codex"
      [] name \in {"claude", "claude-code", "anthropic"} -> "claude"
      [] name \in {"gemini", "google"} -> "gemini"

Contains(s, x) == \E i \in 1..Len(s) : s[i] = x

NoDuplicates(s) == \A i, j \in 1..Len(s) : i # j => s[i] # s[j]

TaskIds == 1..NumTasks

\* Cursor dataclass
Cursor(ti, ph, ai) == [task_index |-> ti, phase |-> ph, after_index |-> ai]

\* A task's entry of state["tasks"]; a key the code never set reads as NONE / FALSE.
EmptyTaskState ==
    [history |-> <<>>, claude_session_id |-> NONE, codex_can_resume |-> FALSE,
     gemini_resume |-> NONE, last_ok_engine |-> NONE, status |-> NONE]

DefaultState == [cursor |-> Cursor(0, "main", 0), tasks |-> [t \in TaskIds |-> EmptyTaskState]]

\* A file: absent, partially written (truncated, content incomplete) or holding a document.
Absent == [st |-> "absent", doc |-> NONE]
Partial == [st |-> "partial", doc |-> NONE]
Full(d) == [st |-> "full", doc |-> d]

load_state(file) == IF file.st = "full" THEN file.doc ELSE DefaultState

\* Variant of load_backup that makes no copy.
load_backup_none(file, b) == b

\* load_state(): a file that does not parse is copied to state.corrupt.<stamp>.json
load_backup(file, b) == IF file.st = "partial" THEN file ELSE b

get_cursor(st) == st.cursor

set_cursor(st, c) == [st EXCEPT !.cursor = c]

\* main(): fallback_engines as passed to run_task
fallback_engines(a) ==
    SelectSeq([i \in 1..Len(a.fallback) |-> normalize_engine(a.fallback[i])],
              LAMBDA e : e # normalize_engine(a.engine))

primary_engine(a) == normalize_engine(a.engine)

\* run_task(): MAIN try order
engine_order(task, primary, fallbacks) ==
    LET first == IF task.engine # NONE THEN normalize_engine(task.engine) ELSE primary
    IN <<first>> \o SelectSeq(fallbacks, LAMBDA e : e # first)

\* run_task(): try order of one follow-up prompt
after_engine_order(ts, primary, fallbacks) ==
    LET last_ok == IF ts.last_ok_engine # NONE THEN ts.last_ok_engine ELSE primary
    IN <<last_ok, primary>> \o SelectSeq(fallbacks, LAMBDA e : e \notin {last_ok, primary})

\* One entry of a task's history; a MAIN record has no after_index (-1 here).
StepRecord(phase, idx, eng, ok) ==
    [phase |-> phase, after_index |-> idx, engine |-> eng, ok |-> ok]

\* The handoff file of a task: absent, or the Phase, Engine and Status lines of
\* the body write_handoff() wrote last.
NoHandoff == [st |-> "absent", phase |-> NONE, after_index |-> -1, engine |-> NONE, ok |-> FALSE]

NoHandoffs == [t \in TaskIds |-> NoHandoff]

write_handoff(files, task_id, phase, idx, eng, ok) ==
    [files EXCEPT ![task_id] =
         [st |-> "full", phase |-> phase, after_index |-> idx, engine |-> eng, ok |-> ok]]

\* What a backend call can return to run_task: ok, a session id (claude only),
\* INVALID_ARGUMENT in the output (gemini only).
ClaudeSessionIds == {"sidA"}

RunResults(eng) ==
    {r \in [ok : BOOLEAN,
            session_id : IF eng = "claude" THEN ClaudeSessionIds \cup {NONE} ELSE {NONE},
            invalid_argument : IF eng = "gemini" THEN BOOLEAN ELSE {FALSE}] :
        r.invalid_argument => ~r.ok}

\* The backend call in flight, if any.
NoInv == [engine |-> NONE, phase |-> NONE, after_index |-> -1, resume |-> NONE]

\* Locals of run_task between two of its steps.
NoLoc ==
    [order |-> <<>>, k |-> 0, result_ok |-> FALSE, ran |-> FALSE,
     claude_session |-> NONE, codex_can_resume |-> FALSE, gemini_resume |-> NONE,
     h0 |-> 0, inv |-> NoInv]

\* agent_csv_runner.py: DEFAULTS, as far as the run reads it. `verify` stands for
\* cfg["commands"]: whether any of format / lint / test is a non-empty command.
retries == 2

DEFAULTS == [verify |-> FALSE, retries |-> retries, after_agent |-> "same"]

---------------------------------------------------------------------------
(* agentflow.py *)

curTask == tasks[cursor.task_index + 1]

tstate == state.tasks[curTask.task_id]

\* save_state(): write state.tmp (truncate, then content), then rename it over
\* state.json. One step per file-system effect; `at` is the call site.
save_state(at, next) ==
    /\ runner = "agentflow"
    /\ pc = at
    /\ CASE wr = "idle" ->
              /\ tmpFile' = Partial
              /\ wr' = "open"
              /\ UNCHANGED <<stateFile, pc>>
         [] wr = "open" ->
              /\ tmpFile' = Full(state)
              /\ wr' = "written"
              /\ UNCHANGED <<stateFile, pc>>
         [] wr = "written" ->
              /\ stateFile' = tmpFile
              /\ tmpFile' = Absent
              /\ wr' = "idle"
              /\ pc' = next
    /\ UNCHANGED <<runner, handoff, invalidArg, backup, args, cfg, tasks, after_prompts,
                   cursor, state, loc, pause, stop, kills, ranBefore, toggles, held,
                   calls, fails, exitCode>>

\* --start-task was not given (the option's default)
NoStartTask == 0

\* main(): `next((i for i, t in enumerate(tasks) if t.task_id == target), None)`,
\* -1 for None
start_index(ts, target) ==
    LET hits == {i \in 1..Len(ts) : ts[i].task_id = target}
    IN IF hits = {} THEN -1 ELSE (CHOOSE i \in hits : \A j \in hits : i <= j) - 1

\* Variant of initial_cursor in which --resume goes before --start-task.
initial_cursor_resumeFirst(a, ts, c) ==
    IF a.resume THEN c
    ELSE IF a.start_task # NoStartTask THEN Cursor(start_index(ts, a.start_task), "main", 0)
    ELSE Cursor(0, "main", 0)

\* main(): the cursor the run starts from; c is the cursor of the loaded state
initial_cursor(a, ts, c) ==
    IF a.start_task # NoStartTask THEN Cursor(start_index(ts, a.start_task), "main", 0)
    ELSE IF ~a.resume THEN Cursor(0, "main", 0)
    ELSE c

\* main(): load the state, take the cursor; --start-task sets it (exit 2 when no
\* task has that id), else it is reset unless --resume; a cursor set here is saved
Boot ==
    /\ runner = "agentflow"
    /\ pc = "boot"
    /\ LET st == load_state(stateFile)
           c == initial_cursor(args, tasks, get_cursor(st))
       IN IF args.start_task # NoStartTask /\ start_index(tasks, args.start_task) = -1
          THEN /\ cursor' = get_cursor(st)
               /\ state' = st
               /\ pc' = "exit"
               /\ exitCode' = 2
          ELSE /\ cursor' = c
               /\ state' = IF args.start_task # NoStartTask \/ ~args.resume
                            THEN set_cursor(st, c) ELSE st
               /\ pc' = IF args.start_task # NoStartTask \/ ~args.resume
                         THEN "boot_save" ELSE "loop"
               /\ UNCHANGED exitCode
    /\ backup' = load_backup(stateFile, backup)
    /\ UNCHANGED <<runner, handoff, invalidArg, args, cfg, tasks, after_prompts,
                   stateFile, tmpFile, wr, loc, pause, stop, kills, ranBefore, toggles,
                   held, calls, fails>>

BootSave == save_state("boot_save", "loop")

\* main(): the while test; run_task() up to its phase test
MainLoop ==
    /\ runner = "agentflow"
    /\ pc = "loop"
    /\ IF cursor.task_index < Len(tasks)
       THEN /\ loc' = [NoLoc EXCEPT !.claude_session = tstate.claude_session_id,
                                    !.codex_can_resume = tstate.codex_can_resume,
                                    !.gemini_resume = tstate.gemini_resume,
                                    !.order = engine_order(curTask, primary_engine(args),
                                                           fallback_engines(args))]
            /\ pc' = IF cursor.phase = "main" THEN "main_wait" ELSE "after_loop"
            /\ UNCHANGED exitCode
       ELSE /\ pc' = "exit"
            /\ exitCode' = 0
            /\ UNCHANGED loc
    /\ UNCHANGED <<runner, handoff, invalidArg, backup, args, cfg, tasks, after_prompts,
                   cursor, state, stateFile, tmpFile, wr, pause, stop, kills, ranBefore,
                   toggles, held, calls, fails>>

\* ControlFiles.wait_if_paused(): one poll
wait_if_paused(at, next) ==
    /\ runner = "agentflow"
    /\ pc = at
    /\ pc' = IF pause THEN at ELSE next
    /\ held' = pause
    /\ UNCHANGED <<runner, handoff, invalidArg, backup, args, cfg, tasks, after_prompts,
                   cursor, state, stateFile, tmpFile, wr, loc, pause, stop, kills,
                   ranBefore, toggles, calls, fails, exitCode>>

MainWaitIfPaused == wait_if_paused("main_wait", "main_stopchk")

\* run_task(): should_stop() before MAIN, then the prompt and the start of the loop
MainShouldStop ==
    /\ runner = "agentflow"
    /\ pc = "main_stopchk"
    /\ IF stop
       THEN /\ pc' = "ret"
            /\ UNCHANGED loc
       ELSE /\ pc' = "main_call"
            /\ loc' = [loc EXCEPT !.k = 1, !.h0 = Len(tstate.history), !.ran = FALSE,
                                  !.result_ok = FALSE]
    /\ UNCHANGED <<runner, handoff, invalidArg, backup, args, cfg, tasks, after_prompts,
                   cursor, state, stateFile, tmpFile, wr, pause, stop, kills, ranBefore,
                   toggles, held, calls, fails, exitCode>>

\* run_with_engine(): the resume argument handed to the backend
resume_arg(eng, phase, l, a) ==
    CASE eng = "codex" -> IF phase = "after" /\ l.codex_can_resume THEN "last" ELSE NONE
      [] eng = "claude" -> IF phase = "after" THEN l.claude_session ELSE NONE
      [] eng = "gemini" -> IF l.gemini_resume # NONE THEN l.gemini_resume ELSE a.gemini_resume

\* run_with_engine(): the backend process is started
run_with_engine(at, next, phase, idx) ==
    /\ runner = "agentflow"
    /\ pc = at
    /\ pc' = next
    /\ loc' = [loc EXCEPT !.inv = [engine |-> loc.order[loc.k], phase |-> phase,
                                   after_index |-> idx,
                                   resume |-> resume_arg(loc.order[loc.k], phase, loc, args)]]
    /\ UNCHANGED <<runner, handoff, invalidArg, backup, args, cfg, tasks, after_prompts,
                   cursor, state, stateFile, tmpFile, wr, pause, stop, kills, ranBefore,
                   toggles, held, calls, fails, exitCode>>

MainInvoke == run_with_engine("main_call", "main_inv", "main", -1)

\* A try-loop body that keeps only the latest record of the task
record_result_rewrite(ts, phase, idx, eng, r) ==
    LET t1 == [ts EXCEPT !.history = <<StepRecord(phase, idx, eng, r.ok)>>]
    IN IF r.ok THEN [t1 EXCEPT !.last_ok_engine = eng] ELSE t1

\* A try-loop body that takes the backend of every result as last_ok_engine
record_result_lastAny(ts, phase, idx, eng, r) ==
    [ts EXCEPT !.history = Append(@, StepRecord(phase, idx, eng, r.ok)),
               !.claude_session_id = IF eng = "claude" /\ r.session_id # NONE
                                     THEN r.session_id ELSE @,
               !.codex_can_resume = IF eng = "codex" THEN TRUE ELSE @,
               !.last_ok_engine = eng]

\* The body of the try loops after the backend returned: history, session keys,
\* last_ok_engine.
record_result(ts, phase, idx, eng, r) ==
    LET t1 == [ts EXCEPT !.history = Append(@, StepRecord(phase, idx, eng, r.ok))]
        t2 == IF eng = "claude" /\ r.session_id # NONE
              THEN [t1 EXCEPT !.claude_session_id = r.session_id] ELSE t1
        t3 == IF eng = "codex" THEN [t2 EXCEPT !.codex_can_resume = TRUE] ELSE t2
        t4 == IF eng = "gemini" /\ ~r.ok /\ r.invalid_argument
              THEN [t3 EXCEPT !.gemini_resume = NONE] ELSE t3
    IN IF r.ok THEN [t4 EXCEPT !.last_ok_engine = eng] ELSE t4

record_locals(l, eng, r) ==
    [l EXCEPT !.result_ok = r.ok, !.ran = TRUE, !.inv = NoInv,
              !.claude_session = IF eng = "claude" /\ r.session_id # NONE
                                 THEN r.session_id ELSE @,
              !.codex_can_resume = IF eng = "codex" THEN TRUE ELSE @]

\* `if result.ok: break`, else the next engine of the order, else the end of the loop
\* Variant of loop_next that lacks the break at the first ok result.
loop_next_noBreak(ok, k, order, again, out) ==
    IF k < Len(order) THEN again ELSE out

loop_next(ok, k, order, again, out) ==
    IF ok THEN out ELSE IF k < Len(order) THEN again ELSE out

\* One iteration of a try loop, from the backend's return on.
engine_returns(at, again, out, phase, idx) ==
    /\ runner = "agentflow"
    /\ pc = at
    /\ \E r \in RunResults(loc.order[loc.k]) :
         LET eng == loc.order[loc.k]
             nxt == loop_next(r.ok, loc.k, loc.order, again, out)
         IN /\ r.ok \/ kills + fails < MaxFaults
            /\ fails' = IF r.ok THEN fails ELSE fails + 1
            /\ handoff' = write_handoff(handoff, curTask.task_id, phase, idx, eng, r.ok)
            /\ invalidArg' = IF eng = "gemini" /\ ~r.ok /\ r.invalid_argument
                              THEN invalidArg \cup {curTask.task_id} ELSE invalidArg
            /\ state' = [state EXCEPT !.tasks[curTask.task_id] =
                                          record_result(@, phase, idx, eng, r)]
            /\ loc' = [record_locals(loc, eng, r) EXCEPT
                           !.k = IF nxt = again THEN loc.k + 1 ELSE loc.k]
            /\ pc' = nxt
    /\ UNCHANGED <<runner, backup, args, cfg, tasks, after_prompts, cursor, stateFile,
                   tmpFile, wr, pause, stop, kills, ranBefore, toggles, held, calls,
                   exitCode>>

MainReturn == engine_returns("main_inv", "main_call", "main_post", "main", -1)

\* run_task(): after the MAIN loop: failed with all engines, or main_ok
\* Variant of main_outcome that enters the AFTER phase after a failed MAIN step.
main_outcome_noSkip(ok, c) ==
    [status |-> IF ~ok THEN "failed" ELSE "main_ok",
     cursor |-> Cursor(c.task_index, "after", 0), pc |-> "main_save"]

\* Variant of main_outcome that leaves the cursor at a task whose MAIN step failed.
main_outcome_stay(ok, c) ==
    IF ~ok
    THEN [status |-> "failed", cursor |-> c, pc |-> "ret"]
    ELSE [status |-> "main_ok", cursor |-> Cursor(c.task_index, "after", 0),
          pc |-> "main_save"]

main_outcome(ok, c) ==
    IF ~ok
    THEN [status |-> "failed", cursor |-> Cursor(c.task_index + 1, "main", 0), pc |-> "ret"]
    ELSE [status |-> "main_ok", cursor |-> Cursor(c.task_index, "after", 0),
          pc |-> "main_save"]

MainPost ==
    /\ runner = "agentflow"
    /\ pc = "main_post"
    /\ loc.ran
    /\ LET o == main_outcome(loc.result_ok, cursor)
       IN /\ cursor' = o.cursor
          /\ state' = set_cursor([state EXCEPT !.tasks[curTask.task_id].status = o.status],
                                 o.cursor)
          /\ pc' = o.pc
    /\ UNCHANGED <<runner, handoff, invalidArg, backup, args, cfg, tasks, after_prompts,
                   stateFile, tmpFile, wr, loc, pause, stop, kills, ranBefore, toggles,
                   held, calls, fails, exitCode>>

MainSave == save_state("main_save", "after_loop")

\* run_task(): the while test of the AFTER phase; past the loop, the task is done
\* Variant of AfterLoop that moves to the next task without resetting phase and
\* after_index.
AfterLoop_noReset ==
    /\ runner = "agentflow"
    /\ pc = "after_loop"
    /\ IF cursor.phase = "after" /\ cursor.after_index < Len(after_prompts)
       THEN /\ pc' = "after_wait"
            /\ UNCHANGED <<cursor, state>>
       ELSE /\ cursor' = [cursor EXCEPT !.task_index = @ + 1]
            /\ state' = set_cursor([state EXCEPT !.tasks[curTask.task_id].status = "done"],
                                   [cursor EXCEPT !.task_index = @ + 1])
            /\ pc' = "done_save"
    /\ UNCHANGED <<runner, handoff, invalidArg, backup, args, cfg, tasks, after_prompts,
                   stateFile, tmpFile, wr, loc, pause, stop, kills, ranBefore, toggles,
                   held, calls, fails, exitCode>>

\* Variant of AfterLoop whose while test admits after_index = len(after_prompts).
AfterLoop_offByOne ==
    /\ runner = "agentflow"
    /\ pc = "after_loop"
    /\ IF cursor.phase = "after" /\ cursor.after_index <= Len(after_prompts)
       THEN /\ pc' = "after_wait"
            /\ UNCHANGED <<cursor, state>>
       ELSE /\ cursor' = Cursor(cursor.task_index + 1, "main", 0)
            /\ state' = set_cursor([state EXCEPT !.tasks[curTask.task_id].status = "done"],
                                   Cursor(cursor.task_index + 1, "main", 0))
            /\ pc' = "done_save"
    /\ UNCHANGED <<runner, handoff, invalidArg, backup, args, cfg, tasks, after_prompts,
                   stateFile, tmpFile, wr, loc, pause, stop, kills, ranBefore, toggles,
                   held, calls, fails, exitCode>>

AfterLoop ==
    /\ runner = "agentflow"
    /\ pc = "after_loop"
    /\ IF cursor.phase = "after" /\ cursor.after_index < Len(after_prompts)
       THEN /\ pc' = "after_wait"
            /\ UNCHANGED <<cursor, state>>
       ELSE /\ cursor' = Cursor(cursor.task_index + 1, "main", 0)
            /\ state' = set_cursor([state EXCEPT !.tasks[curTask.task_id].status = "done"],
                                   Cursor(cursor.task_index + 1, "main", 0))
            /\ pc' = "done_save"
    /\ UNCHANGED <<runner, handoff, invalidArg, backup, args, cfg, tasks, after_prompts,
                   stateFile, tmpFile, wr, loc, pause, stop, kills, ranBefore, toggles,
                   held, calls, fails, exitCode>>

DoneSave == save_state("done_save", "ret")

AfterWaitIfPaused == wait_if_paused("after_wait", "after_stopchk")

\* A follow-up checkpoint that does not look at the stop marker
AfterShouldStop_ignored ==
    /\ runner = "agentflow"
    /\ pc = "after_stopchk"
    /\ pc' = "after_call"
    /\ loc' = [loc EXCEPT !.k = 1, !.h0 = Len(tstate.history), !.ran = FALSE,
                          !.result_ok = FALSE,
                          !.order = after_engine_order(tstate, primary_engine(args),
                                                       fallback_engines(args))]
    /\ UNCHANGED <<runner, handoff, invalidArg, backup, args, cfg, tasks, after_prompts,
                   cursor, state, stateFile, tmpFile, wr, pause, stop, kills, ranBefore,
                   toggles, held, calls, fails, exitCode>>

\* run_task(): should_stop() before a follow-up, then its prompt and try order
AfterShouldStop ==
    /\ runner = "agentflow"
    /\ pc = "after_stopchk"
    /\ IF stop
       THEN /\ pc' = "ret"
            /\ UNCHANGED loc
       ELSE /\ pc' = "after_call"
            /\ loc' = [loc EXCEPT !.k = 1, !.h0 = Len(tstate.history), !.ran = FALSE,
                                  !.result_ok = FALSE,
                                  !.order = after_engine_order(tstate, primary_engine(args),
                                                               fallback_engines(args))]
    /\ UNCHANGED <<runner, handoff, invalidArg, backup, args, cfg, tasks, after_prompts,
                   cursor, state, stateFile, tmpFile, wr, pause, stop, kills, ranBefore,
                   toggles, held, calls, fails, exitCode>>

AfterInvoke == run_with_engine("after_call", "after_inv", "after", cursor.after_index)

AfterReturn ==
    engine_returns("after_inv", "after_call", "after_post", "after", cursor.after_index)

\* run_task(): after the try loop of a follow-up: status, then the cursor moves on
\* Variant of after_outcome that gives up the remaining follow-ups after a failure.
after_outcome_abort(ran, ok, c) ==
    [status |-> IF ~ran \/ ~ok THEN "after_failed"
                ELSE "after_ok_" \o ToString(c.after_index + 1),
     cursor |-> [c EXCEPT !.after_index = IF ~ran \/ ~ok THEN Len(after_prompts) ELSE @ + 1]]

after_outcome(ran, ok, c) ==
    [status |-> IF ~ran \/ ~ok THEN "after_failed"
                ELSE "after_ok_" \o ToString(c.after_index + 1),
     cursor |-> [c EXCEPT !.after_index = @ + 1]]

AfterPost ==
    /\ runner = "agentflow"
    /\ pc = "after_post"
    /\ LET o == after_outcome(loc.ran, loc.result_ok, cursor)
       IN /\ cursor' = o.cursor
          /\ state' = set_cursor([state EXCEPT !.tasks[curTask.task_id].status = o.status],
                                 o.cursor)
    /\ pc' = "after_save"
    /\ UNCHANGED <<runner, handoff, invalidArg, backup, args, cfg, tasks, after_prompts,
                   stateFile, tmpFile, wr, loc, pause, stop, kills, ranBefore, toggles,
                   held, calls, fails, exitCode>>

\* Variant of AfterSave that leaves state.json as it was.
AfterSave_noWrite ==
    /\ runner = "agentflow"
    /\ pc = "after_save"
    /\ pc' = "after_loop"
    /\ UNCHANGED <<runner, handoff, invalidArg, backup, args, cfg, tasks, after_prompts,
                   cursor, state, stateFile, tmpFile, wr, loc, pause, stop, kills,
                   ranBefore, toggles, held, calls, fails, exitCode>>

AfterSave == save_state("after_save", "after_loop")

\* main(): save_state() after run_task() returned
LoopSave == save_state("ret", "stop_chk")

\* main(): should_stop() after a task
LoopShouldStop ==
    /\ runner = "agentflow"
    /\ pc = "stop_chk"
    /\ IF stop
       THEN /\ pc' = "exit"
            /\ exitCode' = 0
       ELSE /\ pc' = "loop"
            /\ UNCHANGED exitCode
    /\ UNCHANGED <<runner, handoff, invalidArg, backup, args, cfg, tasks, after_prompts,
                   cursor, state, stateFile, tmpFile, wr, loc, pause, stop, kills,
                   ranBefore, toggles, held, calls, fails>>

---------------------------------------------------------------------------
(* agent_csv_runner.py *)

GeminiSessionIds == {"gidA"}

\* _parse_agent_list(): known names, first occurrence only
RECURSIVE parse_agent_list(_)
parse_agent_list(s) ==
    IF s = <<>> THEN <<>>
    ELSE LET front == parse_agent_list(SubSeq(s, 1, Len(s) - 1))
             p == s[Len(s)]
         IN IF p \in Engines /\ ~Contains(front, p) THEN Append(front, p) ELSE front

\* ensure_cli_available(): the agent's CLI is on PATH and answers
ensure_cli_available(a, agent) == agent \notin a.unavailable

\* main(): the fallback chain, without the primary and without the agents whose
\* CLI is not available
fallback_order(a) ==
    SelectSeq(parse_agent_list(a.fallback),
              LAMBDA x : x # a.engine /\ ensure_cli_available(a, x))

RECURSIVE extend_unique(_, _, _)
extend_unique(out, primary_agent, s) ==
    IF s = <<>> THEN out
    ELSE extend_unique(IF Head(s) # primary_agent /\ ~Contains(out, Head(s))
                       THEN Append(out, Head(s)) ELSE out,
                       primary_agent, Tail(s))

\* main.agent_try_order()
agent_try_order(primary_agent, fo) == extend_unique(<<primary_agent>>, primary_agent, fo)

\* TaskSessions dataclass
\* Variant of TaskSessions that starts every row without session ids.
TaskSessions_cold(cs, gs) ==
    [codex_started |-> FALSE, claude_session_id |-> NONE, gemini_session_id |-> NONE]

TaskSessions(cs, gs) == [codex_started |-> FALSE, claude_session_id |-> cs,
                         gemini_session_id |-> gs]

\* main()'s done_ids, claude_sessions, gemini_sessions: what persist_state() writes
CsvEmptyState ==
    [done_ids |-> {}, claude_sessions |-> [t \in TaskIds |-> NONE],
     gemini_sessions |-> [t \in TaskIds |-> NONE]]

\* Locals of main()'s row body.
CsvNoLoc ==
    [idx |-> 0, task_id |-> 0, primary |-> NONE, order |-> <<>>, k |-> 0,
     rc_ok |-> FALSE, impl_agent_used |-> NONE, failures |-> FALSE,
     attempt |-> 0, chain |-> 0, after_agent |-> NONE, j |-> 0,
     sessions |-> TaskSessions(NONE, NONE), sub |-> "wait", inv |-> NoInv]

\* What a backend process can give back: exit code zero or not, and a session id
\* in its output (claude: the final JSON; gemini: the init event of a stream).
CsvRunResults(agent) ==
    [ok : BOOLEAN,
     session_id : CASE agent = "claude" -> ClaudeSessionIds \cup {NONE}
                    [] agent = "gemini" -> GeminiSessionIds \cup {NONE}
                    [] OTHER -> {NONE}]

\* codex_run / claude_run / gemini_run: the TaskSessions after the call
sessions_after(ss, agent, r) ==
    CASE agent = "codex" ->
           IF r.ok THEN [ss EXCEPT !.codex_started = TRUE] ELSE ss
      [] agent = "claude" ->
           IF r.ok /\ r.session_id # NONE /\ ss.claude_session_id = NONE
           THEN [ss EXCEPT !.claude_session_id = r.session_id] ELSE ss
      [] agent = "gemini" ->
           IF ss.gemini_session_id = NONE /\ r.session_id # NONE
           THEN [ss EXCEPT !.gemini_session_id = r.session_id] ELSE ss

\* main.run_stage(): the session dictionaries after the call
run_stage_state(st, task_id, agent, ss) ==
    CASE agent = "claude" /\ ss.claude_session_id # NONE ->
           [st EXCEPT !.claude_sessions[task_id] = ss.claude_session_id]
      [] agent = "gemini" /\ ss.gemini_session_id # NONE ->
           [st EXCEPT !.gemini_sessions[task_id] = ss.gemini_session_id]
      [] OTHER -> st

\* Variant of csv_resume_arg that keeps one session slot for all backends.
csv_resume_arg_shared(agent, ss) ==
    IF ss.claude_session_id # NONE THEN ss.claude_session_id
    ELSE IF ss.gemini_session_id # NONE THEN ss.gemini_session_id
    ELSE IF agent = "codex" /\ ss.codex_started THEN "last" ELSE NONE

\* The resume argument of a call, from the TaskSessions
csv_resume_arg(agent, ss) ==
    CASE agent = "codex" -> IF ss.codex_started THEN "last" ELSE NONE
      [] agent = "claude" -> ss.claude_session_id
      [] agent = "gemini" -> ss.gemini_session_id

CsvFrame == UNCHANGED <<runner, handoff, invalidArg, backup, args, cfg, tasks,
                        after_prompts, cursor, tmpFile, pause, stop, kills, ranBefore,
                        toggles, held>>

\* A wait_if_paused() that gives up after its first sleep
csv_checkpoint_onePoll(at, next, stopPc, stopCode) ==
    /\ runner = "csv"
    /\ pc = at
    /\ CASE loc.sub = "wait" ->
              /\ loc' = [loc EXCEPT !.sub = IF pause THEN "poll" ELSE "stop"]
              /\ UNCHANGED <<pc, exitCode>>
         [] loc.sub = "poll" ->
              /\ loc' = [loc EXCEPT !.sub = "stop"]
              /\ UNCHANGED <<pc, exitCode>>
         [] OTHER ->
              /\ loc' = [loc EXCEPT !.sub = "wait"]
              /\ pc' = IF stop THEN stopPc ELSE next
              /\ exitCode' = IF stop /\ stopPc = "exit" THEN stopCode ELSE exitCode
    /\ held' = IF loc.sub = "wait" THEN pause ELSE held
    /\ UNCHANGED <<runner, handoff, invalidArg, backup, args, cfg, tasks, after_prompts,
                   cursor, state, stateFile, tmpFile, wr, pause, stop, kills, ranBefore,
                   toggles, calls, fails>>

\* wait_if_paused() then stop_requested(). `sub` is "wait" at the loop's test
\* pause_file.exists(), "poll" at the test stop_file.exists() inside the loop (absent:
\* sleep and test the pause again), "stop" at the stop_requested() that follows the
\* call. stopPc / stopCode: where a stop leads.
csv_checkpoint(at, next, stopPc, stopCode) ==
    /\ runner = "csv"
    /\ pc = at
    /\ CASE loc.sub = "wait" ->
              /\ loc' = [loc EXCEPT !.sub = IF pause THEN "poll" ELSE "stop"]
              /\ UNCHANGED <<pc, exitCode>>
         [] loc.sub = "poll" ->
              /\ loc' = [loc EXCEPT !.sub = IF stop THEN "stop" ELSE "wait"]
              /\ UNCHANGED <<pc, exitCode>>
         [] OTHER ->
              /\ loc' = [loc EXCEPT !.sub = "wait"]
              /\ pc' = IF stop THEN stopPc ELSE next
              /\ exitCode' = IF stop /\ stopPc = "exit" THEN stopCode ELSE exitCode
    /\ held' = IF loc.sub = "wait" THEN pause ELSE held
    /\ UNCHANGED <<runner, handoff, invalidArg, backup, args, cfg, tasks, after_prompts,
                   cursor, state, stateFile, tmpFile, wr, pause, stop, kills, ranBefore,
                   toggles, calls, fails>>

\* persist_state() -> write_json(): path.write_text() truncates state.json, then
\* writes the document.
persist_state(at, next) ==
    /\ runner = "csv"
    /\ pc = at
    /\ IF wr = "idle"
       THEN /\ stateFile' = Partial
            /\ wr' = "open"
            /\ UNCHANGED pc
       ELSE /\ stateFile' = Full(state)
            /\ wr' = "idle"
            /\ pc' = next
    /\ UNCHANGED <<state, loc, calls, fails, exitCode>>
    /\ CsvFrame

\* A backend process is started for a stage.
csv_invoke(at, next, stage, n, agent) ==
    /\ runner = "csv"
    /\ pc = at
    /\ pc' = next
    /\ loc' = [loc EXCEPT !.inv = [engine |-> agent, phase |-> stage, after_index |-> n,
                                   resume |-> csv_resume_arg(agent, loc.sessions)]]
    /\ UNCHANGED <<state, stateFile, wr, calls, fails, exitCode>>
    /\ CsvFrame

\* run_stage() returns: sessions, session dictionaries, the call's return code.
csv_returns(at, next) ==
    /\ runner = "csv"
    /\ pc = at
    /\ \E r \in CsvRunResults(loc.inv.engine) :
         LET agent == loc.inv.engine
             ss == sessions_after(loc.sessions, agent, r)
         IN /\ r.ok \/ kills + fails < MaxFaults
            /\ fails' = IF r.ok THEN fails ELSE fails + 1
            /\ loc' = [loc EXCEPT !.sessions = ss, !.rc_ok = r.ok, !.inv = NoInv]
            /\ state' = run_stage_state(state, loc.task_id, agent, ss)
            /\ calls' = Append(calls, [stage |-> loc.inv.phase, n |-> loc.inv.after_index,
                                       agent |-> agent, ok |-> r.ok])
    /\ pc' = next
    /\ UNCHANGED <<stateFile, wr, exitCode>>
    /\ CsvFrame

\* main(): ensure_cli_available(primary_default, strict=True) raises SystemExit;
\* then state = load_json(state_file) if --resume else {}
CsvBoot ==
    /\ runner = "csv"
    /\ pc = "boot"
    /\ IF \/ ~ensure_cli_available(args, args.engine)
          \/ args.resume /\ stateFile.st = "partial"
       THEN /\ pc' = "exit"
            /\ exitCode' = 1
            /\ UNCHANGED <<state, loc>>
       ELSE /\ state' = IF args.resume /\ stateFile.st = "full"
                        THEN stateFile.doc ELSE CsvEmptyState
            /\ loc' = [CsvNoLoc EXCEPT !.idx = 1]
            /\ pc' = "c_row"
            /\ UNCHANGED exitCode
    /\ UNCHANGED <<stateFile, wr, calls, fails>>
    /\ CsvFrame

\* main(): `for idx, row in enumerate(rows, start=1)`
CsvRowLoop ==
    /\ runner = "csv"
    /\ pc = "c_row"
    /\ IF loc.idx > Len(tasks)
       THEN /\ pc' = "exit"
            /\ exitCode' = 0
       ELSE /\ pc' = "c_row_chk"
            /\ UNCHANGED exitCode
    /\ UNCHANGED <<state, stateFile, wr, loc, calls, fails>>
    /\ CsvFrame

CsvRowCheckpoint == csv_checkpoint("c_row_chk", "c_setup", "exit", 0)

\* main(): task id (sanitize_task_id raises ValueError on a bad one), skip if
\* done, primary, spec text (SystemExit when there is none), sessions; an
\* exception that nothing catches ends the process with status 1
\* Variant of already_done that never skips a row.
already_done_never(task_id, done_ids) == FALSE

\* main(): `if task_id in done_ids`
already_done(task_id, done_ids) == task_id \in done_ids

CsvRowSetup ==
    /\ runner = "csv"
    /\ pc = "c_setup"
    /\ LET row == tasks[loc.idx]
       IN IF row.input = "bad_id"
          THEN /\ pc' = "exit"
               /\ UNCHANGED loc
          ELSE IF already_done(row.task_id, state.done_ids)
          THEN /\ loc' = [loc EXCEPT !.idx = @ + 1]
               /\ pc' = "c_row"
          ELSE IF row.input = "no_spec"
          THEN /\ pc' = "exit"
               /\ UNCHANGED loc
          ELSE /\ loc' = [CsvNoLoc EXCEPT
                             !.idx = loc.idx,
                             !.task_id = row.task_id,
                             !.primary = IF row.engine \in Engines THEN row.engine
                                         ELSE args.engine,
                             !.order = agent_try_order(
                                          IF row.engine \in Engines THEN row.engine
                                          ELSE args.engine, fallback_order(args)),
                             !.k = 1,
                             !.sessions = TaskSessions(state.claude_sessions[row.task_id],
                                                       state.gemini_sessions[row.task_id])]
               /\ pc' = "c_impl_chk"
    /\ exitCode' = IF pc' = "exit" THEN 1 ELSE exitCode
    /\ calls' = <<>>
    /\ UNCHANGED <<state, stateFile, wr, fails>>
    /\ CsvFrame

\* 1) Implement: the try loop over agent_try_order(primary)
CsvImplCheckpoint == csv_checkpoint("c_impl_chk", "c_impl_call", "exit", 0)

CsvImplInvoke == csv_invoke("c_impl_call", "c_impl_inv", "impl", 0, loc.order[loc.k])

CsvImplReturn == csv_returns("c_impl_inv", "c_impl_persist")

CsvImplPersist == persist_state("c_impl_persist", "c_impl_next")

\* After an implement attempt: success, the next agent, or "impl failed with all agents"
impl_next(ok, k, order) ==
    IF ok THEN [pc |-> "c_verify_chk", code |-> -1]
    ELSE IF k < Len(order) THEN [pc |-> "c_impl_chk", code |-> -1]
    ELSE [pc |-> "exit", code |-> 1]

CsvImplNext ==
    /\ runner = "csv"
    /\ pc = "c_impl_next"
    /\ LET n == impl_next(loc.rc_ok, loc.k, loc.order)
       IN /\ pc' = n.pc
          /\ exitCode' = IF n.pc = "exit" THEN n.code ELSE exitCode
          /\ loc' = [loc EXCEPT
                        !.impl_agent_used = IF loc.rc_ok THEN loc.order[loc.k] ELSE @,
                        !.k = IF n.pc = "c_impl_chk" THEN @ + 1 ELSE @]
    /\ UNCHANGED <<state, stateFile, wr, calls, fails>>
    /\ CsvFrame

\* 2) Verify + fix loops
CsvVerifyCheckpoint == csv_checkpoint("c_verify_chk", "c_verify", "exit", 0)

\* run_verify(): whether the failure list is non-empty; it is empty when no
\* command is configured.
VerifyOutcomes(c) == IF c.verify THEN BOOLEAN ELSE {FALSE}

CsvVerify ==
    /\ runner = "csv"
    /\ pc = "c_verify"
    /\ \E f \in VerifyOutcomes(cfg) :
         /\ loc' = [loc EXCEPT !.failures = f, !.attempt = 1, !.chain = 1,
                               !.order = agent_try_order(loc.impl_agent_used,
                                                         fallback_order(args))]
         /\ pc' = IF f THEN "c_fix_loop" ELSE "c_after_start"
    /\ UNCHANGED <<state, stateFile, wr, calls, fails, exitCode>>
    /\ CsvFrame

\* fix_with(): the head of `for attempt in range(1, max_attempts + 1)`
CsvFixLoop ==
    /\ runner = "csv"
    /\ pc = "c_fix_loop"
    /\ pc' = IF loc.attempt > cfg.retries THEN "c_fix_switch"
             ELSE IF ~loc.failures THEN "c_after_start"
             ELSE "c_fix_chk"
    /\ UNCHANGED <<state, stateFile, wr, loc, calls, fails, exitCode>>
    /\ CsvFrame

\* fix_with(): a stop makes it return False
CsvFixCheckpoint == csv_checkpoint("c_fix_chk", "c_fix_call", "c_fix_switch", -1)

CsvFixInvoke ==
    csv_invoke("c_fix_call", "c_fix_inv", "fix", loc.attempt, loc.order[loc.chain])

CsvFixReturn == csv_returns("c_fix_inv", "c_fix_persist")

\* A fix loop that re-verifies only after a backend call that returned 0
CsvFixPersist_skipVerify ==
    persist_state("c_fix_persist", IF loc.rc_ok THEN "c_fix_verify" ELSE "c_fix_loop")

CsvFixPersist == persist_state("c_fix_persist", "c_fix_verify")

\* fix_with(): re-verify after the attempt
CsvFixVerify ==
    /\ runner = "csv"
    /\ pc = "c_fix_verify"
    /\ \E f \in VerifyOutcomes(cfg) :
         /\ loc' = [loc EXCEPT !.failures = f, !.attempt = IF f THEN @ + 1 ELSE @]
         /\ pc' = IF f THEN "c_fix_loop" ELSE "c_after_start"
    /\ UNCHANGED <<state, stateFile, wr, calls, fails, exitCode>>
    /\ CsvFrame

\* A fix chain whose agents share one retry budget
CsvFixSwitch_sharedBudget ==
    /\ runner = "csv"
    /\ pc = "c_fix_switch"
    /\ IF loc.chain < Len(loc.order)
       THEN /\ loc' = [loc EXCEPT !.chain = @ + 1]
            /\ pc' = "c_fix_loop"
            /\ UNCHANGED exitCode
       ELSE /\ pc' = "exit"
            /\ exitCode' = 1
            /\ UNCHANGED loc
    /\ UNCHANGED <<state, stateFile, wr, calls, fails>>
    /\ CsvFrame

\* A fix chain that goes on to the follow-ups when every agent has failed
CsvFixSwitch_giveUp ==
    /\ runner = "csv"
    /\ pc = "c_fix_switch"
    /\ IF loc.chain < Len(loc.order)
       THEN /\ loc' = [loc EXCEPT !.chain = @ + 1, !.attempt = 1]
            /\ pc' = "c_fix_loop"
       ELSE /\ pc' = "c_after_start"
            /\ UNCHANGED loc
    /\ UNCHANGED <<state, stateFile, wr, calls, fails, exitCode>>
    /\ CsvFrame

\* main(): fix_with() returned False: the next agent of the chain, or exit 1
CsvFixSwitch ==
    /\ runner = "csv"
    /\ pc = "c_fix_switch"
    /\ IF loc.chain < Len(loc.order)
       THEN /\ loc' = [loc EXCEPT !.chain = @ + 1, !.attempt = 1]
            /\ pc' = "c_fix_loop"
            /\ UNCHANGED exitCode
       ELSE /\ pc' = "exit"
            /\ exitCode' = 1
            /\ UNCHANGED loc
    /\ UNCHANGED <<state, stateFile, wr, calls, fails>>
    /\ CsvFrame

\* 3) After prompts: the agent they start with
after_agent(c, impl_agent_used) ==
    IF c.after_agent = "same" \/ c.after_agent \notin Engines
    THEN impl_agent_used ELSE c.after_agent

CsvAfterStart ==
    /\ runner = "csv"
    /\ pc = "c_after_start"
    /\ loc' = [loc EXCEPT !.after_agent = after_agent(cfg, loc.impl_agent_used), !.j = 1]
    /\ pc' = "c_after_loop"
    /\ UNCHANGED <<state, stateFile, wr, calls, fails, exitCode>>
    /\ CsvFrame

\* main(): `for j, (fname, ptext) in enumerate(after_prompts, start=1)`
CsvAfterLoop ==
    /\ runner = "csv"
    /\ pc = "c_after_loop"
    /\ IF loc.j > Len(after_prompts)
       THEN /\ pc' = "c_done"
            /\ UNCHANGED loc
       ELSE /\ pc' = "c_after_chk"
            /\ loc' = [loc EXCEPT !.k = 1,
                                  !.order = agent_try_order(loc.after_agent,
                                                            fallback_order(args))]
    /\ UNCHANGED <<state, stateFile, wr, calls, fails, exitCode>>
    /\ CsvFrame

CsvAfterCheckpoint == csv_checkpoint("c_after_chk", "c_after_call", "exit", 0)

CsvAfterInvoke == csv_invoke("c_after_call", "c_after_inv", "after", loc.j, loc.order[loc.k])

CsvAfterReturn == csv_returns("c_after_inv", "c_after_persist")

CsvAfterPersist == persist_state("c_after_persist", "c_after_next")

\* After a follow-up call: on failure the fallbacks in turn, then the next prompt
after_next(ok, k, order) ==
    IF ~ok /\ k < Len(order) THEN "c_after_call" ELSE "c_after_loop"

CsvAfterNext ==
    /\ runner = "csv"
    /\ pc = "c_after_next"
    /\ LET n == after_next(loc.rc_ok, loc.k, loc.order)
       IN /\ pc' = n
          /\ loc' = IF n = "c_after_call" THEN [loc EXCEPT !.k = @ + 1]
                    ELSE [loc EXCEPT !.j = @ + 1]
    /\ UNCHANGED <<state, stateFile, wr, calls, fails, exitCode>>
    /\ CsvFrame

\* 4) State: done_ids.add(task_id), persist_state(), the next row
CsvDone ==
    /\ runner = "csv"
    /\ pc = "c_done"
    /\ state' = [state EXCEPT !.done_ids = @ \cup {loc.task_id}]
    /\ pc' = "c_done_persist"
    /\ UNCHANGED <<stateFile, wr, loc, calls, fails, exitCode>>
    /\ CsvFrame

CsvDonePersist == persist_state("c_done_persist", "c_next")

CsvNextRow ==
    /\ runner = "csv"
    /\ pc = "c_next"
    /\ loc' = [loc EXCEPT !.idx = @ + 1]
    /\ pc' = "c_row"
    /\ UNCHANGED <<state, stateFile, wr, calls, fails, exitCode>>
    /\ CsvFrame

---------------------------------------------------------------------------
(* The environment: the process is killed; the user restarts it with --resume *)

\* The invocations a state document has a StepRecord of.
Completed(st) ==
    UNION {{[task_id |-> t, phase |-> st.tasks[t].history[i].phase,
             after_index |-> st.tasks[t].history[i].after_index,
             engine |-> st.tasks[t].history[i].engine] :
                i \in 1..Len(st.tasks[t].history)} : t \in TaskIds}

\* SIGKILL: the process and its memory are gone, the files stay as they are.
Kill ==
    /\ pc \notin {"exit", "killed"}
    /\ kills + fails < MaxFaults
    /\ pc' = "killed"
    /\ kills' = kills + 1
    /\ ranBefore' = IF runner = "agentflow" THEN ranBefore \cup Completed(state)
                     ELSE ranBefore
    /\ cursor' = Cursor(0, "main", 0)
    /\ state' = IF runner = "agentflow" THEN DefaultState ELSE CsvEmptyState
    /\ loc' = IF runner = "agentflow" THEN NoLoc ELSE CsvNoLoc
    /\ wr' = "idle"
    /\ calls' = <<>>
    /\ UNCHANGED <<runner, handoff, invalidArg, backup, args, cfg, tasks, after_prompts,
                   stateFile, tmpFile, pause, stop, toggles, held, fails, exitCode>>

Restart ==
    /\ pc = "killed"
    /\ pc' = "boot"
    /\ args' = [args EXCEPT !.resume = TRUE]
    /\ UNCHANGED <<runner, handoff, invalidArg, backup, cfg, tasks, after_prompts,
                   cursor, state, stateFile, tmpFile, wr, loc, pause, stop, kills,
                   ranBefore, toggles, held, calls, fails, exitCode>>

---------------------------------------------------------------------------
(* Specification of agentflow.py runs *)

\* --fallback lists, as typed
FallbackArgs == {<<>>, <<"claude", "gemini">>, <<"claude", "anthropic">>}

\* A row of the task list. input: "ok", or what is wrong with the row for
\* agent_csv_runner.py: "bad_id" (the id does not match TASK_ID_RE), "no_spec" (no
\* text in any column that could be the spec)
Row(task_id, engine, input) == [task_id |-> task_id, engine |-> engine, input |-> input]

\* The task list: ids are the row numbers; only the first row may name an engine.
TaskLists ==
    {[i \in 1..NumTasks |-> Row(i, IF i = 1 THEN e ELSE NONE, "ok")] :
        e \in {NONE, "gemini"}}

\* The start of a run; G: the values of --gemini-resume, R: those of --resume,
\* S: those of --start-task, M: whether the PAUSE and STOP markers may exist
\* already, F: how much of the budget of failing backend calls is spent from the
\* start, T: the task lists
InitAgentflowArgs(G, R, S, M, F, T) ==
    /\ runner = "agentflow"
    /\ args \in [engine : {"codex"}, fallback : FallbackArgs, resume : R,
                 gemini_resume : G, start_task : S]
    /\ cfg = DEFAULTS
    /\ tasks \in T
    /\ after_prompts = [i \in 1..NumAfter |-> i]
    /\ pc = "boot"
    /\ cursor = Cursor(0, "main", 0)
    /\ state = DefaultState
    /\ stateFile = Absent
    /\ tmpFile = Absent
    /\ handoff = NoHandoffs
    /\ backup = Absent
    /\ invalidArg = {}
    /\ wr = "idle"
    /\ loc = NoLoc
    /\ pause \in M
    /\ stop \in M
    /\ kills = 0
    /\ toggles = 0
    /\ held = FALSE
    /\ ranBefore = {}
    /\ calls = <<>>
    /\ fails = F
    /\ exitCode = -1

\* The start of a run without --resume and --start-task
InitAgentflowWith(G, M, F, T) == InitAgentflowArgs(G, {FALSE}, {NoStartTask}, M, F, T)

InitAgentflow == InitAgentflowWith({NONE}, {FALSE}, 0, TaskLists)

NextAgentflow ==
    \/ Boot \/ BootSave \/ MainLoop
    \/ MainWaitIfPaused \/ MainShouldStop \/ MainInvoke \/ MainReturn \/ MainPost \/ MainSave
    \/ AfterLoop \/ AfterWaitIfPaused \/ AfterShouldStop \/ AfterInvoke \/ AfterReturn
    \/ AfterPost \/ AfterSave \/ DoneSave
    \/ LoopSave \/ LoopShouldStop

---------------------------------------------------------------------------
(* Specification of agent_csv_runner.py runs *)

\* --fallback-order, as typed
CsvFallbackArgs == {<<>>, <<"claude", "gemini">>, <<"claude", "anthropic">>}

InitCsvWith(M, F, T, U) ==
    /\ runner = "csv"
    /\ args \in [engine : {"codex"}, fallback : CsvFallbackArgs, resume : {FALSE},
                 gemini_resume : {NONE}, unavailable : U]
    /\ cfg \in {[DEFAULTS EXCEPT !.verify = v] : v \in BOOLEAN}
    /\ tasks \in T
    /\ after_prompts = [i \in 1..NumAfter |-> i]
    /\ pc = "boot"
    /\ cursor = Cursor(0, "main", 0)
    /\ state = CsvEmptyState
    /\ stateFile = Absent
    /\ tmpFile = Absent
    /\ handoff = NoHandoffs
    /\ backup = Absent
    /\ invalidArg = {}
    /\ wr = "idle"
    /\ loc = CsvNoLoc
    /\ pause \in M
    /\ stop \in M
    /\ kills = 0
    /\ toggles = 0
    /\ held = FALSE
    /\ ranBefore = {}
    /\ calls = <<>>
    /\ fails = F
    /\ exitCode = -1

InitCsv == InitCsvWith({FALSE}, 0, TaskLists, {{}})

NextCsv ==
    \/ CsvBoot \/ CsvRowLoop \/ CsvRowCheckpoint \/ CsvRowSetup
    \/ CsvImplCheckpoint \/ CsvImplInvoke \/ CsvImplReturn \/ CsvImplPersist \/ CsvImplNext
    \/ CsvVerifyCheckpoint \/ CsvVerify
    \/ CsvFixLoop \/ CsvFixCheckpoint \/ CsvFixInvoke \/ CsvFixReturn \/ CsvFixPersist
    \/ CsvFixVerify \/ CsvFixSwitch
    \/ CsvAfterStart \/ CsvAfterLoop \/ CsvAfterCheckpoint \/ CsvAfterInvoke
    \/ CsvAfterReturn \/ CsvAfterPersist \/ CsvAfterNext
    \/ CsvDone \/ CsvDonePersist \/ CsvNextRow

---------------------------------------------------------------------------
(* Both runners, each run possibly killed and restarted with --resume *)

Init == InitAgentflow \/ InitCsv

Next == NextAgentflow \/ NextCsv \/ Kill \/ Restart

Spec == Init /\ [][Next]_vars

\* agentflow.py runs started with --gemini-resume latest
InitGeminiResume == InitAgentflowWith({"latest"}, {FALSE}, 0, TaskLists)

NextGeminiResume == NextAgentflow \/ Kill \/ Restart

SpecGeminiResume == InitGeminiResume /\ [][NextGeminiResume]_vars

---------------------------------------------------------------------------
(* Runs under an operator who creates and removes the PAUSE and STOP markers *)

\* The operator (or the SIGINT handler) acts while the run is alive.
MarkerChange ==
    /\ pc \notin {"exit", "killed"}
    /\ toggles < MaxToggles
    /\ toggles' = toggles + 1
    /\ UNCHANGED <<runner, handoff, invalidArg, backup, args, cfg, tasks, after_prompts,
                   pc, cursor, state, stateFile, tmpFile, wr, loc, kills, ranBefore,
                   calls, fails, exitCode>>

CreatePause == ~pause /\ pause' = TRUE /\ UNCHANGED <<stop, held>> /\ MarkerChange

RemovePause == pause /\ pause' = FALSE /\ held' = FALSE /\ UNCHANGED stop /\ MarkerChange

CreateStop == ~stop /\ stop' = TRUE /\ UNCHANGED <<pause, held>> /\ MarkerChange

RemoveStop == stop /\ stop' = FALSE /\ UNCHANGED <<pause, held>> /\ MarkerChange

\* Both markers may be left over from an earlier run: neither script removes them
\* at startup. The backends do not fail in these runs (their budget of failures is
\* spent from the start); the verification commands may.
InitControl ==
    /\ InitAgentflowWith({NONE}, BOOLEAN, MaxFaults, TaskLists)
       \/ InitCsvWith(BOOLEAN, MaxFaults, TaskLists, {{}})
    /\ args.fallback = <<"claude", "gemini">>
    /\ runner = "csv" => cfg.verify
    /\ tasks[1].engine = NONE

NextControl ==
    \/ NextAgentflow \/ NextCsv
    \/ CreatePause \/ RemovePause \/ CreateStop \/ RemoveStop

SpecControl == InitControl /\ [][NextControl]_vars

\* The runner's process is scheduled as long as it can take a step.
SpecControlFair == SpecControl /\ WF_vars(NextAgentflow \/ NextCsv)

---------------------------------------------------------------------------
(* Runs over a task list in which an id occurs more than once *)

DuplicateIdLists ==
    {[i \in 1..NumTasks |-> Row(ids[i], NONE, "ok")] :
        ids \in {f \in [1..NumTasks -> TaskIds] : \E i, j \in 1..NumTasks : i # j /\ f[i] = f[j]}}

InitDuplicateIds ==
    \/ InitAgentflowWith({NONE}, {FALSE}, 0, DuplicateIdLists)
    \/ InitCsvWith({FALSE}, 0, DuplicateIdLists, {{}})

NextDuplicateIds == NextAgentflow \/ NextCsv

SpecDuplicateIds == InitDuplicateIds /\ [][NextDuplicateIds]_vars

---------------------------------------------------------------------------
(* agent_csv_runner.py runs over a task list with a row that is an input error *)

BadRowLists ==
    {[i \in 1..NumTasks |-> Row(i, NONE, inputs[i])] :
        inputs \in {f \in [1..NumTasks -> {"ok", "bad_id", "no_spec"}] :
                       \E i \in 1..NumTasks : f[i] # "ok"}}

InitBadRows == InitCsvWith({FALSE}, 0, BadRowLists, {{}})

SpecBadRows == InitBadRows /\ [][NextCsv]_vars

---------------------------------------------------------------------------
(* agent_csv_runner.py runs on a machine where some backend CLIs are missing *)

InitCli == InitCsvWith({FALSE}, 0, TaskLists, SUBSET Engines \ {{}})

SpecCli == InitCli /\ [][NextCsv]_vars

---------------------------------------------------------------------------
(* agentflow.py runs started with any combination of --resume and            *)
(* --start-task, killed and started again with any combination               *)

\* Values of --start-task: not given, the id of each task, an id no task has
StartTasks == {NoStartTask} \cup TaskIds \cup {NumTasks + 1}

InitStartTask ==
    InitAgentflowArgs({NONE}, BOOLEAN, StartTasks, {FALSE}, MaxFaults - 1, TaskLists)

\* The operator starts the script again after a kill, with options of their choice.
Rerun ==
    /\ pc = "killed"
    /\ pc' = "boot"
    /\ \E r \in BOOLEAN, s \in StartTasks :
          args' = [args EXCEPT !.resume = r, !.start_task = s]
    /\ UNCHANGED <<runner, handoff, invalidArg, backup, cfg, tasks, after_prompts,
                   cursor, state, stateFile, tmpFile, wr, loc, pause, stop, kills,
                   ranBefore, toggles, held, calls, fails, exitCode>>

NextStartTask == NextAgentflow \/ Kill \/ Rerun

SpecStartTask == InitStartTask /\ [][NextStartTask]_vars

---------------------------------------------------------------------------
(* agentflow.py runs during which the operator creates the STOP marker and   *)
(* leaves it in place, with backends that may fail                           *)

InitStop == InitAgentflowWith({NONE}, {FALSE}, 0, TaskLists)

NextStop == NextAgentflow \/ CreateStop

SpecStop == InitStop /\ [][NextStop]_vars

---------------------------------------------------------------------------
(* agentflow.py runs that nothing interrupts: no marker, no kill, every      *)
(* backend call returns; the interpreter keeps executing the script          *)

InitTerminates ==
    InitAgentflowArgs({NONE}, {FALSE}, {NoStartTask} \cup TaskIds, {FALSE}, 0, TaskLists)

NextTerminates == NextAgentflow

SpecTerminates == InitTerminates /\ [][NextTerminates]_vars /\ WF_vars(NextTerminates)

---------------------------------------------------------------------------
(* agentflow.py runs whose state.json was damaged while no run was alive     *)

\* Something other than agentflow.py leaves state.json with content that does
\* not parse.
CorruptState ==
    /\ runner = "agentflow"
    /\ pc = "killed"
    /\ stateFile.st = "full"
    /\ stateFile' = Partial
    /\ UNCHANGED <<runner, handoff, invalidArg, backup, args, cfg, tasks, after_prompts,
                   pc, cursor, state, tmpFile, wr, loc, pause, stop, kills, ranBefore,
                   toggles, held, calls, fails, exitCode>>

NextCorruptState == NextAgentflow \/ Kill \/ Rerun \/ CorruptState

SpecCorruptState == InitStartTask /\ [][NextCorruptState]_vars

---------------------------------------------------------------------------
(* Functions of the two scripts, each called on its own with inputs of its   *)
(* domain: `runner` names the function, `args` holds its arguments, `loc` its *)
(* locals, `calls` the processes it has run.                                  *)

\* One call of the function `name` with arguments drawn from `inputs`
FnInit(name, inputs, locals) ==
    /\ runner = name
    /\ args \in inputs
    /\ cfg = DEFAULTS
    /\ tasks = <<>>
    /\ after_prompts = <<>>
    /\ pc = "call"
    /\ cursor = Cursor(0, "main", 0)
    /\ state = CsvEmptyState
    /\ stateFile = Absent
    /\ tmpFile = Absent
    /\ handoff = NoHandoffs
    /\ backup = Absent
    /\ invalidArg = {}
    /\ wr = "idle"
    /\ loc = locals
    /\ pause = FALSE
    /\ stop = FALSE
    /\ kills = 0
    /\ toggles = 0
    /\ held = FALSE
    /\ ranBefore = {}
    /\ calls = <<>>
    /\ fails = 0
    /\ exitCode = -1

FnFrame ==
    UNCHANGED <<runner, handoff, invalidArg, backup, args, cfg, tasks, after_prompts,
                cursor, state, stateFile, tmpFile, wr, pause, stop, kills, ranBefore,
                toggles, held, fails, exitCode>>

\* str.strip() on a text given as its sequence of characters
RECURSIVE lstrip(_)
lstrip(s) == IF s # <<>> /\ Head(s) = " " THEN lstrip(Tail(s)) ELSE s

RECURSIVE rstrip(_)
rstrip(s) == IF s # <<>> /\ s[Len(s)] = " " THEN rstrip(SubSeq(s, 1, Len(s) - 1)) ELSE s

strip(s) == rstrip(lstrip(s))

\* run_verify(): `for key in ["format", "lint", "test"]`
VerifyKeys == <<"format", "lint", "test">>

\* What cfg["commands"] may hold for a key: "", blanks, a command
CommandTexts == {<<>>, <<" ">>, <<"c">>, <<" ", "c", " ">>}

\* cfg["commands"]: a dictionary that may lack any of the keys
CommandDicts == UNION {[K -> CommandTexts] : K \in SUBSET {"format", "lint", "test"}}

\* commands.get(key) or ""
get_or_empty(commands, key) == IF key \in DOMAIN commands THEN commands[key] ELSE <<>>

\* What run(["bash", "-lc", cmd]) returns
VerifyRuns == [returncode : {0, 1, 2}, output : {"out"}]

InitRunVerify ==
    FnInit("run_verify", [commands : CommandDicts],
           [i |-> 1, cmd |-> <<>>, failures |-> <<>>])

\* run_verify(): the head of the loop: `cmd = (commands.get(key) or "").strip()`,
\* `if not cmd: continue`; after the last key, `return failures`
RunVerifyFor ==
    /\ runner = "run_verify"
    /\ pc \in {"call", "v_for"}
    /\ IF loc.i > Len(VerifyKeys)
       THEN /\ pc' = "v_ret"
            /\ UNCHANGED loc
       ELSE LET cmd == strip(get_or_empty(args.commands, VerifyKeys[loc.i]))
            IN IF cmd = <<>>
               THEN /\ loc' = [loc EXCEPT !.i = @ + 1]
                    /\ pc' = "v_for"
               ELSE /\ loc' = [loc EXCEPT !.cmd = cmd]
                    /\ pc' = "v_run"
    /\ UNCHANGED calls
    /\ FnFrame

\* A run_verify() that returns at the first failing check
RunVerifyRun_failFast ==
    /\ runner = "run_verify"
    /\ pc = "v_run"
    /\ \E rr \in VerifyRuns :
         /\ calls' = Append(calls, [key |-> VerifyKeys[loc.i], cmd |-> loc.cmd, rr |-> rr])
         /\ loc' = [loc EXCEPT
                       !.failures = IF rr.returncode # 0
                                    THEN Append(@, <<loc.cmd, rr.output>>) ELSE @,
                       !.i = IF rr.returncode # 0 THEN Len(VerifyKeys) + 1 ELSE @ + 1]
    /\ pc' = "v_for"
    /\ FnFrame

\* run_verify(): the command is run; a non-zero return code adds (cmd, output)
RunVerifyRun ==
    /\ runner = "run_verify"
    /\ pc = "v_run"
    /\ \E rr \in VerifyRuns :
         /\ calls' = Append(calls, [key |-> VerifyKeys[loc.i], cmd |-> loc.cmd, rr |-> rr])
         /\ loc' = [loc EXCEPT
                       !.failures = IF rr.returncode # 0
                                    THEN Append(@, <<loc.cmd, rr.output>>) ELSE @,
                       !.i = @ + 1]
    /\ pc' = "v_for"
    /\ FnFrame

NextRunVerify == RunVerifyFor \/ RunVerifyRun

SpecRunVerify == InitRunVerify /\ [][NextRunVerify]_vars

\* AgentRunner.gemini_run(), stream-json branch. A line of the stream is an event
\* (type; session_id of an init event; status of a result event; NONE: the key
\* is missing or null) or a line that is not JSON ("garbage").
StreamEvent(type, session_id, status) ==
    [type |-> type, session_id |-> session_id, status |-> status]

StreamEvents ==
    {StreamEvent("init", sid, NONE) : sid \in {NONE, "gidA", "gidB"}}
      \cup {StreamEvent(t, NONE, NONE) :
              t \in {"tool_use", "tool_result", "error", "message", "garbage"}}
      \cup {StreamEvent("result", NONE, st) : st \in {NONE, "", "success", "SUCCESS", "error"}}

\* str.lower() on the status texts
lower(st) == IF st = "SUCCESS" THEN "success" ELSE st

InitGeminiStream ==
    FnInit("gemini_run",
           [events : UNION {[1..n -> StreamEvents] : n \in 0..MaxEvents},
            returncode : {0, 1},
            gemini_session_id : {NONE, "gid0"}],
           [i |-> 1, session_id |-> NONE, result_status |-> NONE, errors |-> <<>>,
            effective_rc |-> 0])

\* gemini_run(): `session_id = self.sessions.gemini_session_id` and the empty
\* accumulators, before the process is started
GeminiStreamStart ==
    /\ runner = "gemini_run"
    /\ pc = "call"
    /\ loc' = [loc EXCEPT !.session_id = args.gemini_session_id]
    /\ pc' = "g_lines"
    /\ UNCHANGED calls
    /\ FnFrame

\* handle_line(): one line of the stream
handle_line(l, evt) ==
    CASE evt.type = "init" /\ evt.session_id # NONE ->
            [l EXCEPT !.session_id = evt.session_id]
      [] evt.type = "error" ->
            [l EXCEPT !.errors = Append(@, "msg")]
      [] evt.type = "result" ->
            [l EXCEPT !.result_status = lower(IF evt.status = NONE THEN "" ELSE evt.status)]
      [] OTHER -> l

GeminiHandleLine ==
    /\ runner = "gemini_run"
    /\ pc = "g_lines"
    /\ loc.i <= Len(args.events)
    /\ loc' = [handle_line(loc, args.events[loc.i]) EXCEPT !.i = loc.i + 1]
    /\ calls' = Append(calls, args.events[loc.i])
    /\ UNCHANGED pc
    /\ FnFrame

\* gemini_run(): "Determine success" once the process has exited
effective_rc(returncode, result_status, errors) ==
    IF returncode # 0 THEN returncode
    ELSE IF result_status \notin {NONE, ""} /\ result_status # "success" THEN 1
    ELSE IF errors # <<>> THEN 1
    ELSE 0

GeminiStreamReturn ==
    /\ runner = "gemini_run"
    /\ pc = "g_lines"
    /\ loc.i > Len(args.events)
    /\ loc' = [loc EXCEPT
                  !.effective_rc = effective_rc(args.returncode, loc.result_status,
                                                loc.errors)]
    /\ pc' = "g_ret"
    /\ UNCHANGED calls
    /\ FnFrame

NextGeminiStream == GeminiStreamStart \/ GeminiHandleLine \/ GeminiStreamReturn

SpecGeminiStream == InitGeminiStream /\ [][NextGeminiStream]_vars

\* The JSON-result adapters: Engine.run_claude / run_gemini (agentflow.py) and
\* AgentRunner.claude_run / gemini_run with output format json (agent_csv_runner.py).
\* The backend's output: kind "object" (a JSON object with the fields below; NONE:
\* the key is missing), "text" (not JSON), "broken" (starts with a brace, not JSON).
Payloads ==
    [kind : {"object", "text", "broken"}, is_error : {NONE, "true", "false"},
     subtype : {NONE, "success", "error"}, error : {NONE, "err"},
     session_id : {NONE, "sidA"}]

AdapterLocals == [ok |-> FALSE, returncode |-> -1, session_id |-> NONE]

AdapterInputs == [returncode : {0, 1}, out : Payloads]

InitAdapters ==
    \/ FnInit("agentflow.run_claude", AdapterInputs, AdapterLocals)
    \/ FnInit("agentflow.run_gemini", AdapterInputs, AdapterLocals)
    \/ FnInit("csv.claude_run", AdapterInputs, AdapterLocals)
    \/ FnInit("csv.gemini_run", AdapterInputs, AdapterLocals)

\* An adapter returns: its verdict and the session id it hands back
adapter_returns(name, ok, returncode, session_id) ==
    /\ runner = name
    /\ pc = "call"
    /\ loc' = [ok |-> ok, returncode |-> returncode, session_id |-> session_id]
    /\ pc' = "a_ret"
    /\ UNCHANGED calls
    /\ FnFrame

\* agentflow.py, Engine.run_claude(): ok = (rc == 0), False when the object says
\* is_error or subtype "error"
RunClaude ==
    LET obj == args.out
        failed == obj.kind = "object" /\ (obj.is_error = "true" \/ obj.subtype = "error")
    IN adapter_returns("agentflow.run_claude", args.returncode = 0 /\ ~failed,
                       args.returncode,
                       IF obj.kind = "object" THEN obj.session_id ELSE NONE)

\* agentflow.py, Engine.run_gemini(): ok = (rc == 0), False when the object has an error
RunGemini ==
    LET obj == args.out
        failed == obj.kind = "object" /\ obj.error # NONE
    IN adapter_returns("agentflow.run_gemini", args.returncode = 0 /\ ~failed,
                       args.returncode, NONE)

\* agent_csv_runner.py, claude_run(): the RunResult of run() is returned as it is;
\* the object is read for session_id and result only
CsvClaudeRun ==
    LET obj == args.out
    IN adapter_returns("csv.claude_run", args.returncode = 0, args.returncode,
                       IF args.returncode = 0 /\ obj.kind = "object"
                       THEN obj.session_id ELSE NONE)

\* agent_csv_runner.py, gemini_run(), output format json: error_summary and
\* effective_rc
CsvGeminiRunJson ==
    LET obj == args.out
        error_summary == \/ obj.kind = "object" /\ obj.error # NONE
                         \/ obj.kind = "broken"
        rc == IF error_summary /\ args.returncode = 0 THEN 1 ELSE args.returncode
    IN adapter_returns("csv.gemini_run", rc = 0, rc, NONE)

NextAdapters == RunClaude \/ RunGemini \/ CsvClaudeRun \/ CsvGeminiRunJson

SpecAdapters == InitAdapters /\ [][NextAdapters]_vars

---------------------------------------------------------------------------
(* agentflow.py's run_process(): the capture of the child's output           *)

\* len(line) of the lines the child may write: a line holds its line end at least
LineLens == {1, 2, MAX_CAPTURE_CHARS, MAX_CAPTURE_CHARS + 1}

\* A line of the output: its position in the output and its length
Line(no, len) == [no |-> no, len |-> len]

\* sum(len(x) for x in captured)
RECURSIVE sum_len(_)
sum_len(captured) ==
    IF captured = <<>> THEN 0 ELSE Head(captured).len + sum_len(Tail(captured))

max(a, b) == IF a >= b THEN a ELSE b

\* run_process(): the body of `for line in p.stdout`, as far as it captures
capture(captured, captured_chars, line) ==
    LET c1 == Append(captured, line)
        n1 == captured_chars + line.len
    IN IF n1 > MAX_CAPTURE_CHARS
       THEN LET drop == max(1, Len(c1) \div 10)
                c2 == SubSeq(c1, drop + 1, Len(c1))
            IN [captured |-> c2, captured_chars |-> sum_len(c2)]
       ELSE [captured |-> c1, captured_chars |-> n1]

InitRunProcess ==
    FnInit("run_process", [verbose : BOOLEAN],
           [lines |-> 0, captured |-> <<>>, captured_chars |-> 0, out |-> <<>>])

\* run_process(): Popen, stdin written and closed, the capture starts empty
RunProcessStart ==
    /\ runner = "run_process"
    /\ pc = "call"
    /\ pc' = "p_read"
    /\ UNCHANGED <<loc, calls>>
    /\ FnFrame

\* run_process(): the child wrote a line; one turn of `for line in p.stdout`
RunProcessLine ==
    /\ runner = "run_process"
    /\ pc = "p_read"
    /\ loc.lines < MaxLines
    /\ \E n \in LineLens :
          LET c == capture(loc.captured, loc.captured_chars, Line(loc.lines + 1, n))
          IN loc' = [loc EXCEPT !.lines = @ + 1, !.captured = c.captured,
                                !.captured_chars = c.captured_chars]
    /\ UNCHANGED <<pc, calls>>
    /\ FnFrame

\* run_process(): the child closed its output: p.wait(), `"".join(captured)`
RunProcessWait ==
    /\ runner = "run_process"
    /\ pc = "p_read"
    /\ loc' = [loc EXCEPT !.out = loc.captured]
    /\ pc' = "p_ret"
    /\ UNCHANGED calls
    /\ FnFrame

NextRunProcess == RunProcessStart \/ RunProcessLine \/ RunProcessWait

SpecRunProcess == InitRunProcess /\ [][NextRunProcess]_vars

---------------------------------------------------------------------------
(* Properties *)

IsAgentflow == runner = "agentflow"

IsCsv == runner = "csv"

\* The invocation run_task has in flight.
InvKey ==
    [task_id |-> curTask.task_id, phase |-> loc.inv.phase,
     after_index |-> loc.inv.after_index, engine |-> loc.inv.engine]

InFlight == IsAgentflow /\ pc \in {"main_inv", "after_inv"}

PersistedState == load_state(stateFile)

\* C1: after a kill and a restart with --resume, no backend invocation whose
\* StepRecord was completed before the kill is started again, and the persisted
\* cursor never points past a unit of work that has not run.
C1_ResumeRunsExactlyTheRest ==
    /\ InFlight => InvKey \notin ranBefore
    /\ (IsAgentflow /\ pc = "killed") =>
          \A i \in 1..Len(tasks) :
             i - 1 < PersistedState.cursor.task_index =>
                \E key \in ranBefore : key.task_id = tasks[i].task_id /\ key.phase = "main"

\* C2: when a backend invocation starts, state.json already holds the StepRecords
\* and the session keys of every invocation that completed earlier.
C2_CompletedStepsArePersisted ==
    InFlight =>
       \A t \in TaskIds :
          /\ PersistedState.tasks[t].history = state.tasks[t].history
          /\ PersistedState.tasks[t].claude_session_id = state.tasks[t].claude_session_id
          /\ PersistedState.tasks[t].codex_can_resume = state.tasks[t].codex_can_resume

\* C3: in both runners, a kill at any point leaves state.json absent (never
\* written yet) or holding a complete document, never a partial one.
C3_StateFileNeverPartial == pc = "killed" => stateFile.st # "partial"

\* C4: in the MAIN try loop the history gains one StepRecord per invocation, in
\* try order, all ok=false except possibly the last; the loop ends at the first
\* ok=true, which sets last_ok_engine, or with the whole order tried.
MainRecords == SubSeq(tstate.history, loc.h0 + 1, Len(tstate.history))

C4_MainHistoryFollowsTryOrder ==
    (IsAgentflow /\ pc \in {"main_call", "main_inv", "main_post"}) =>
       LET n == Len(MainRecords)
       IN /\ n = IF pc = "main_post" THEN loc.k ELSE loc.k - 1
          /\ n <= Len(loc.order)
          /\ \A i \in 1..n :
                /\ MainRecords[i].phase = "main"
                /\ MainRecords[i].engine = loc.order[i]
                /\ MainRecords[i].ok = (pc = "main_post" /\ i = n /\ loc.result_ok)
          /\ pc = "main_post" =>
                /\ n >= 1
                /\ loc.result_ok => tstate.last_ok_engine = loc.order[n]
                /\ ~loc.result_ok => n = Len(loc.order)

\* C4 witness: the first engine failed, the second succeeded: two MAIN records and
\* last_ok_engine is the second engine.
C4_Witness ==
    /\ IsAgentflow /\ pc = "main_post"
    /\ Len(MainRecords) = 2
    /\ ~MainRecords[1].ok /\ MainRecords[2].ok
    /\ MainRecords[1].engine # MainRecords[2].engine
    /\ tstate.last_ok_engine = MainRecords[2].engine

\* C5: the MAIN try order names no backend twice.
C5_MainOrderHasNoDuplicates ==
    (IsAgentflow /\ pc \in {"main_call", "main_inv", "main_post"}) => NoDuplicates(loc.order)

\* C6: a task whose MAIN step failed on every backend of its try order has status
\* failed, the cursor has moved to the next task, none of its follow-up prompts
\* was invoked, and the run goes on: it only exits once every task was visited.
MainExhausted(i) ==
    LET h == state.tasks[tasks[i].task_id].history
    IN /\ Len(h) = Len(engine_order(tasks[i], primary_engine(args), fallback_engines(args)))
       /\ \A n \in 1..Len(h) : h[n].phase = "main" /\ ~h[n].ok

C6_MainFailureSkipsFollowUps ==
    IsAgentflow =>
       /\ \A i \in 1..Len(tasks) :
             LET ts == state.tasks[tasks[i].task_id]
             IN /\ (MainExhausted(i) /\ pc \in {"ret", "stop_chk", "loop", "exit"}) =>
                      (ts.status = "failed" /\ cursor.task_index >= i)
                /\ ts.status = "failed" =>
                      /\ MainExhausted(i)
                      /\ cursor.task_index >= i
                      /\ (pc = "ret" /\ cursor.task_index = i) => cursor = Cursor(i, "main", 0)
                      /\ state.cursor.task_index >= i
       /\ pc = "exit" => (exitCode = 0 /\ cursor.task_index = Len(tasks))

\* C6 witness: the first task failed on two backends and the run is invoking a
\* backend for the second task.
C6_Witness ==
    /\ IsAgentflow /\ pc = "main_inv"
    /\ cursor = Cursor(1, "main", 0)
    /\ state.tasks[tasks[1].task_id].status = "failed"
    /\ Len(state.tasks[tasks[1].task_id].history) = 2

\* C7: in the csv runner an implement stage that failed on every backend of the
\* try order does not end the run while rows remain.
ImplExhausted ==
    /\ Len(calls) = Len(loc.order)
    /\ Len(calls) > 0
    /\ \A n \in 1..Len(calls) : calls[n].stage = "impl" /\ ~calls[n].ok

C7_ImplFailureIsTaskLevel ==
    (IsCsv /\ ImplExhausted /\ loc.idx < Len(tasks)) => pc # "exit"

\* Follow-up attempts of one task, as the sequence of prompt numbers attempted.
RECURSIVE Squeeze(_)
Squeeze(s) ==
    IF Len(s) <= 1 THEN s
    ELSE IF s[1] = s[2] THEN Squeeze(Tail(s))
    ELSE <<s[1]>> \o Squeeze(Tail(s))

AfterIndexes(h) ==
    LET a == SelectSeq(h, LAMBDA r : r.phase = "after")
    IN Squeeze([n \in 1..Len(a) |-> a[n].after_index])

CsvAfterNumbers ==
    LET a == SelectSeq(calls, LAMBDA c : c.stage = "after")
    IN Squeeze([n \in 1..Len(a) |-> a[n].n])

AgentflowAllFollowUps ==
    IsAgentflow =>
       \A t \in TaskIds :
          state.tasks[t].status = "done" =>
             AfterIndexes(state.tasks[t].history) = [n \in 1..Len(after_prompts) |-> n - 1]

\* C8 as stated: every task whose MAIN or implement step succeeded gets every
\* follow-up prompt attempted, in file order, before the runner leaves the task.
C8_FollowUpsAfterImplement ==
    /\ AgentflowAllFollowUps
    /\ (IsCsv /\ loc.impl_agent_used # NONE /\ pc \in {"c_done", "exit"}) =>
          CsvAfterNumbers = [n \in 1..Len(after_prompts) |-> n]

\* C8: every task whose MAIN or implement step succeeded and, in the csv runner,
\* whose verification passed (at once or after a fix) gets every follow-up
\* prompt attempted, in file order, a failed follow-up included; agentflow
\* records each under its own after_index.
C8_FollowUpsAllAttempted ==
    /\ AgentflowAllFollowUps
    /\ (IsCsv /\ pc \in {"c_done", "c_done_persist", "c_next"}) =>
          /\ loc.impl_agent_used # NONE
          /\ CsvAfterNumbers = [n \in 1..Len(after_prompts) |-> n]

\* C8 witness: a done task whose first follow-up failed on every backend tried
\* and whose second follow-up was attempted all the same.
C8_Witness ==
    /\ IsAgentflow
    /\ \E t \in TaskIds :
          LET h == state.tasks[t].history
          IN /\ state.tasks[t].status = "done"
             /\ \E n \in 1..Len(h) : h[n].phase = "after" /\ h[n].after_index = 1
             /\ \A n \in 1..Len(h) : (h[n].phase = "after" /\ h[n].after_index = 0) => ~h[n].ok

\* C9: the first backend tried for a follow-up prompt is the backend that last
\* succeeded for the task, or the primary one when none did.
RECURSIVE LastOk(_, _)
LastOk(s, default) ==
    IF s = <<>> THEN default
    ELSE IF s[Len(s)].ok THEN s[Len(s)].engine
    ELSE LastOk(SubSeq(s, 1, Len(s) - 1), default)

CallsByEngine == [n \in 1..Len(calls) |-> [engine |-> calls[n].agent, ok |-> calls[n].ok]]

C9_FollowUpStartsWithLastOk ==
    /\ (IsAgentflow /\ pc \in {"after_call", "after_inv"}) =>
          loc.order[1] = LastOk(tstate.history, primary_engine(args))
    /\ (IsCsv /\ pc \in {"c_after_call", "c_after_inv"}) =>
          loc.order[1] = LastOk(CallsByEngine, loc.primary)

\* C10: whenever a follow-up prompt is about to be invoked or is running,
\* state.json holds a complete document whose cursor is (t, after, i) for that
\* very prompt, so that a kill at that point resumes there.
C10_CursorPersistedBeforeFollowUp ==
    (IsAgentflow /\ pc \in {"after_wait", "after_stopchk", "after_call", "after_inv"}) =>
       /\ stateFile.st = "full"
       /\ cursor.phase = "after"
       /\ get_cursor(PersistedState) = cursor

\* C10 witness: after a kill the second follow-up of the second task is running
\* and the first follow-up's records are in state.json.
C10_Witness ==
    /\ IsAgentflow /\ pc = "after_inv" /\ kills >= 1
    /\ cursor = Cursor(1, "after", 1)
    /\ \E n \in 1..Len(PersistedState.tasks[curTask.task_id].history) :
          PersistedState.tasks[curTask.task_id].history[n].after_index = 0

\* C11: in agentflow.py every change of the cursor while a run executes is one of
\* (t, main, 0) -> (t, after, 0) after a successful MAIN step,
\* (t, after, i) -> (t, after, i+1) with i below the number of follow-ups,
\* (t, after, k) -> (t+1, main, 0) with k the number of follow-ups, and
\* (t, main, 0) -> (t+1, main, 0) after a MAIN step that failed on every backend;
\* the cursor written into the state document is the same cursor.
CursorStep(c, d) ==
    \/ /\ c.phase = "main" /\ c.after_index = 0 /\ loc.ran /\ loc.result_ok
       /\ d = Cursor(c.task_index, "after", 0)
    \/ /\ c.phase = "after" /\ c.after_index < Len(after_prompts)
       /\ d = Cursor(c.task_index, "after", c.after_index + 1)
    \/ /\ c.phase = "after" /\ c.after_index = Len(after_prompts)
       /\ d = Cursor(c.task_index + 1, "main", 0)
    \/ /\ c.phase = "main" /\ c.after_index = 0 /\ loc.ran /\ ~loc.result_ok
       /\ loc.k = Len(loc.order)
       /\ d = Cursor(c.task_index + 1, "main", 0)

C11_CursorTransitions ==
    [][(IsAgentflow /\ pc # "boot" /\ pc' # "killed" /\ cursor' # cursor) =>
          (CursorStep(cursor, cursor') /\ get_cursor(state') = cursor')]_vars

\* C11 witness: the first task failed its MAIN step, the second went through MAIN
\* and all its follow-ups, and the cursor is past both.
C11_Witness ==
    /\ IsAgentflow /\ pc = "ret"
    /\ cursor = Cursor(2, "main", 0)
    /\ state.tasks[tasks[1].task_id].status = "failed"
    /\ state.tasks[tasks[2].task_id].status = "done"

\* C12: in agentflow.py the cursor, in memory, in the state document and in
\* state.json, always has phase main or after and an after_index between 0 and the
\* number of follow-up prompts.
CursorInRange(c) ==
    /\ c.phase \in {"main", "after"}
    /\ c.after_index \in 0..Len(after_prompts)
    /\ c.task_index \in 0..Len(tasks)

C12_CursorInRange ==
    IsAgentflow =>
       /\ CursorInRange(cursor)
       /\ CursorInRange(get_cursor(state))
       /\ CursorInRange(get_cursor(PersistedState))

\* C12 witness: a resumed run sits at the AFTER loop test with after_index equal to
\* the number of follow-up prompts, as persisted.
C12_Witness ==
    /\ IsAgentflow /\ pc = "after_loop" /\ args.resume
    /\ cursor.phase = "after"
    /\ cursor.after_index = Len(after_prompts)
    /\ get_cursor(PersistedState) = cursor

\* C13: in both runners a session id is handed as the resume argument only to the
\* backend that produced it: a claude session id only to claude, a gemini session
\* id only to gemini, and codex's "resume --last" only to codex.
CsvInFlight == IsCsv /\ pc \in {"c_impl_inv", "c_fix_inv", "c_after_inv"}

C13_TokenStaysWithItsBackend ==
    (InFlight \/ CsvInFlight) =>
       /\ loc.inv.resume \in ClaudeSessionIds => loc.inv.engine = "claude"
       /\ loc.inv.resume \in GeminiSessionIds => loc.inv.engine = "gemini"
       /\ loc.inv.resume = "last" => loc.inv.engine = "codex"

\* C13 witness: a csv task holds a claude and a gemini session id, codex has run,
\* and gemini is being resumed with the gemini id.
C13_Witness ==
    /\ CsvInFlight
    /\ loc.sessions.claude_session_id \in ClaudeSessionIds
    /\ loc.sessions.codex_started
    /\ loc.inv.engine = "gemini"
    /\ loc.inv.resume \in GeminiSessionIds

\* C14: in agentflow.py a backend is started in resume mode only when the history
\* of the same task already holds an invocation of that same backend; the first
\* invocation of a backend for a task is never a resume.
EarlierInvocation(eng) ==
    \E n \in 1..Len(tstate.history) : tstate.history[n].engine = eng

C14_ResumeOnlyAfterEarlierCall ==
    (InFlight /\ loc.inv.resume # NONE) => EarlierInvocation(loc.inv.engine)

\* C15: after a restart with --resume, the first resumable invocation of claude
\* (agentflow.py: in the AFTER phase) or of claude or gemini (agent_csv_runner.py)
\* for a task gets as resume argument exactly the session id state.json holds
\* for that task and backend.
CsvPersisted == IF stateFile.st = "full" THEN stateFile.doc ELSE CsvEmptyState

PersistedSession(agent) ==
    IF agent = "claude" THEN CsvPersisted.claude_sessions[loc.task_id]
    ELSE CsvPersisted.gemini_sessions[loc.task_id]

FirstSincePersisted ==
    \A n \in (Len(PersistedState.tasks[curTask.task_id].history) + 1)..Len(tstate.history) :
       tstate.history[n].engine # "claude"

C15_SessionRestoredVerbatim ==
    /\ (InFlight /\ args.resume /\ loc.inv.engine = "claude" /\ loc.inv.phase = "after"
          /\ FirstSincePersisted) =>
          loc.inv.resume = PersistedState.tasks[curTask.task_id].claude_session_id
    /\ (CsvInFlight /\ args.resume /\ loc.inv.engine \in {"claude", "gemini"}
          /\ \A n \in 1..Len(calls) : calls[n].agent # loc.inv.engine) =>
          loc.inv.resume = PersistedSession(loc.inv.engine)

\* C15 witness: a resumed csv run starts gemini for the first time for a row and
\* hands it the gemini session id that state.json holds for that row.
C15_Witness ==
    /\ CsvInFlight /\ args.resume
    /\ loc.inv.engine = "gemini"
    /\ \A n \in 1..Len(calls) : calls[n].agent # "gemini"
    /\ PersistedSession("gemini") \in GeminiSessionIds
    /\ loc.inv.resume = PersistedSession("gemini")

\* The places where agent_csv_runner.py calls wait_if_paused() and stop_requested()
CsvCheckpoints == {"c_row_chk", "c_impl_chk", "c_verify_chk", "c_fix_chk", "c_after_chk"}

\* C16: in agent_csv_runner.py, wait_if_paused returns only when the pause marker
\* is absent or the stop marker is present; and when the stop marker is present at
\* the stop_requested() that follows, the run leaves the checkpoint without
\* starting the step the checkpoint guards.
C16_WaitReturnsOnUnpauseOrStop ==
    [][(IsCsv /\ pc \in CsvCheckpoints) =>
          /\ (loc.sub \in {"wait", "poll"} /\ loc'.sub = "stop") => (~pause \/ stop)
          /\ (loc.sub = "stop" /\ stop /\ pc' # pc) =>
                /\ pc' \in {"exit", "c_fix_switch"}
                /\ calls' = calls
                /\ loc'.inv = loc.inv]_vars

\* C16 witness: the csv runner has seen the pause marker, the marker is still
\* there, and the run has returned because the stop marker was there as well.
C16_Witness ==
    /\ IsCsv /\ pc = "exit" /\ exitCode = 0
    /\ held /\ pause /\ stop

\* C17: in agentflow.py the stop marker ends a pause: once the pause and the stop
\* marker are both present, the run eventually returns with exit code 0, unless
\* one of the markers is taken away again, instead of polling forever.
C17_StopEndsPause ==
    (IsAgentflow /\ pause /\ stop) ~>
        ((pc = "exit" /\ exitCode = 0) \/ ~pause \/ ~stop)

\* C18: in both runners, when the pause marker was present at a step's checkpoint
\* and has been present ever since (`held`), the step's backend invocation has
\* not started, whatever the environment does to the stop marker meanwhile.
C18_PausedStepDoesNotStart == (InFlight \/ CsvInFlight) => ~held

\* The history of the task at the cursor, and what it holds when every step
\* before the cursor has completed and no later one has started
AtCursor == state.tasks[tasks[cursor.task_index + 1].task_id].history

OnlyCompletedSteps ==
    cursor.task_index < Len(tasks) =>
       /\ cursor.phase = "main" => AtCursor = <<>>
       /\ \A n \in 1..Len(AtCursor) :
             AtCursor[n].phase = "after" => AtCursor[n].after_index < cursor.after_index

\* C19: in agentflow.py, when the stop marker is present at the checkpoint before
\* MAIN or before a follow-up, run_task returns without invoking a backend and
\* leaves the cursor, the histories and the session keys as they are; when it is
\* present at main's test after run_task, main returns 0; and at that return the
\* state file holds the state in memory, whose records for the task at the cursor
\* are those of the steps before the cursor and of no other.
C19_StopLeavesStateAsIs ==
    /\ [][(IsAgentflow /\ stop /\ pc' # pc) =>
             /\ pc \in {"main_stopchk", "after_stopchk"} =>
                   /\ pc' = "ret"
                   /\ UNCHANGED <<cursor, state, stateFile, loc, calls>>
             /\ pc = "stop_chk" => (pc' = "exit" /\ exitCode' = 0)]_vars
    /\ [](IsAgentflow /\ pc = "exit" =>
             /\ exitCode = 0
             /\ stateFile = Full(state)
             /\ get_cursor(state) = cursor
             /\ OnlyCompletedSteps)

\* C19 witness: the stop marker was seen before the second follow-up of the first
\* task and is still there: the run has returned 0 with the cursor at that follow-up.
C19_Witness ==
    /\ IsAgentflow /\ pc = "exit" /\ exitCode = 0 /\ stop
    /\ cursor = Cursor(0, "after", 1)
    /\ Len(AtCursor) = 2

\* C20: in agent_csv_runner.py a stop marker seen at a checkpoint never makes the
\* run return 1: the run returns 1 only when implement failed on every backend,
\* or when the last backend of the fix chain has used up its fix attempts.
C20_StopNeverExitsOne ==
    (IsCsv /\ pc = "exit" /\ exitCode = 1 /\ loc.impl_agent_used # NONE) =>
        loc.attempt > cfg.retries

\* The fix invocations made so far for the row's verification failure
FixCalls == SelectSeq(calls, LAMBDA c : c.stage = "fix")

CsvAfterPcs ==
    {"c_after_start", "c_after_loop", "c_after_chk", "c_after_call", "c_after_inv",
     "c_after_persist", "c_after_next"}

\* C21: in agent_csv_runner.py's fix loop every fix attempt, also one whose backend
\* call failed, is followed by a re-run of the verification; the first passing
\* re-verify ends the loop without a further fix invocation; a fix invocation
\* starts only while failures remain, each failing verification being followed by
\* one invocation; and the follow-ups run in a passing state.
C21_ReverifyAfterEveryFix ==
    /\ [][(IsCsv /\ pc' \notin {pc, "killed"}) =>
             /\ pc = "c_fix_inv" => pc' = "c_fix_persist"
             /\ pc = "c_fix_persist" => pc' = "c_fix_verify"
             /\ (pc = "c_fix_verify" /\ ~loc'.failures) =>
                   (pc' = "c_after_start" /\ calls' = calls)]_vars
    /\ []((IsCsv /\ pc \in {"c_fix_chk", "c_fix_call"}) =>
             /\ loc.failures
             /\ Len(FixCalls) = (loc.chain - 1) * cfg.retries + loc.attempt - 1)
    /\ []((IsCsv /\ pc \in CsvAfterPcs) => ~loc.failures)

\* C21 witness: the verification failed, the one fix attempt's backend call failed
\* too, the re-verify passed, and the row goes on to its follow-ups.
C21_Witness ==
    /\ IsCsv /\ pc = "c_after_start"
    /\ Len(FixCalls) = 1 /\ ~FixCalls[1].ok
    /\ ~loc.failures

IsCommand(c) == \E n \in 1..Len(c) : c[n] # " "

ConfiguredKeys ==
    SelectSeq(VerifyKeys,
              LAMBDA k : k \in DOMAIN args.commands /\ IsCommand(args.commands[k]))

FailedRuns == SelectSeq(calls, LAMBDA c : c.rr.returncode # 0)

\* C23: run_verify is collect-all: when it returns it has run, in the order
\* format, lint, test, exactly the checks whose command is not empty (or blank),
\* whatever the earlier checks returned, and its failure list holds exactly the
\* checks that returned non-zero, in that order, each with its command and output.
C23_RunVerifyCollectsAll ==
    (runner = "run_verify" /\ pc = "v_ret") =>
       /\ [n \in 1..Len(calls) |-> calls[n].key] = ConfiguredKeys
       /\ \A n \in 1..Len(calls) : IsCommand(calls[n].cmd)
       /\ loc.failures =
             [n \in 1..Len(FailedRuns) |-> <<FailedRuns[n].cmd, FailedRuns[n].rr.output>>]

\* C23 witness: format fails, lint is blank and skipped, test still runs and
\* passes; one failure is returned.
C23_Witness ==
    /\ runner = "run_verify" /\ pc = "v_ret"
    /\ DOMAIN args.commands = {"format", "lint", "test"}
    /\ args.commands["lint"] = <<" ">>
    /\ Len(calls) = 2
    /\ calls[1].key = "format" /\ calls[1].rr.returncode # 0
    /\ calls[2].key = "test" /\ calls[2].rr.returncode = 0
    /\ Len(loc.failures) = 1

\* The events of a kind in the stream handed to gemini_run
EventsOfType(t) == SelectSeq(args.events, LAMBDA e : e.type = t)

SessionInits == SelectSeq(args.events, LAMBDA e : e.type = "init" /\ e.session_id # NONE)

\* C24: in the stream-json branch of agent_csv_runner.py's gemini_run, for every
\* sequence of events: an error event, or a result event whose status is not
\* "success", makes the returned code non-zero even when the process exited with
\* 0; a stream of a process that exited with 0 and holds neither is reported as
\* success whatever tool_use and tool_result events it holds; and the session id
\* of the (last) init event is the one returned, also when the call failed.
C24_StreamFailuresAreReported ==
    (runner = "gemini_run" /\ pc = "g_ret") =>
       /\ (\/ EventsOfType("error") # <<>>
           \/ \E n \in 1..Len(args.events) :
                 /\ args.events[n].type = "result"
                 /\ args.events[n].status \notin {"success", "SUCCESS"})
            => loc.effective_rc # 0
       /\ (/\ args.returncode = 0
           /\ EventsOfType("error") = <<>>
           /\ EventsOfType("result") = <<>>)
            => loc.effective_rc = 0
       /\ SessionInits # <<>> =>
             loc.session_id = SessionInits[Len(SessionInits)].session_id

\* The error a backend reports in its final payload
ReportedError ==
    /\ args.out.kind = "object"
    /\ IF runner \in {"agentflow.run_claude", "csv.claude_run"}
       THEN args.out.is_error = "true" \/ args.out.subtype = "error"
       ELSE args.out.error # NONE

\* C25: every JSON-result adapter (claude and gemini, in both scripts) reports
\* success only when the process exit code is zero, and reports a failure when
\* the exit code is zero and the final payload reports an error.
C25_ZeroExitWithErrorIsFailure ==
    (pc = "a_ret") =>
       /\ loc.ok => args.returncode = 0
       /\ (args.returncode = 0 /\ ReportedError) => ~loc.ok

HasDuplicateIds == \E i, j \in 1..Len(tasks) : i # j /\ tasks[i].task_id = tasks[j].task_id

\* C26: in both runners a task list with two rows of the same task id is a fatal
\* input error: no backend is invoked for any row and the run does not return 0.
C26_DuplicateIdsAreFatal ==
    ((IsAgentflow \/ IsCsv) /\ HasDuplicateIds) =>
       /\ ~(InFlight \/ CsvInFlight)
       /\ pc = "exit" => exitCode # 0

HasBadRow == \E i \in 1..Len(tasks) : tasks[i].input # "ok"

\* C27: in agent_csv_runner.py an input error in any row (bad task id, no spec
\* text) aborts the run before any backend is invoked for any row of the list.
C27_BadRowAbortsBeforeAnyWork ==
    (IsCsv /\ HasBadRow) => ~CsvInFlight

\* The run has ended in the availability checks, before the first row
AbortedAtStartup == pc = "exit" /\ exitCode = 1 /\ loc = CsvNoLoc

\* C28: in agent_csv_runner.py a backend found unavailable at startup is never
\* invoked for any task, and the run aborts at startup only when the primary is
\* unavailable and no fallback is available.
C28_UnavailableBackendIsSkipped ==
    IsCsv =>
       /\ CsvInFlight => ensure_cli_available(args, loc.inv.engine)
       /\ AbortedAtStartup =>
             /\ ~ensure_cli_available(args, args.engine)
             /\ fallback_order(args) = <<>>

IsPrefix(s, t) == Len(s) <= Len(t) /\ SubSeq(t, 1, Len(s)) = s

\* C29: in agentflow.py each task's history is append-only: the return of a
\* backend invocation appends exactly one StepRecord, with the invocation's phase,
\* follow-up index, backend and outcome, to the history of the task at the
\* cursor; no other step of a run changes any history; the histories in
\* state.json only grow; and what a run killed and restarted starts from are the
\* histories of state.json, which are prefixes of those the killed run held.
C29_HistoryIsAppendOnly ==
    [][IsAgentflow =>
          \A t \in TaskIds :
             LET h == state.tasks[t].history
                 h2 == state'.tasks[t].history
             IN /\ IF pc' = "killed"
                   THEN IsPrefix(h2, h)
                   ELSE IF pc = "boot"
                   THEN IsPrefix(h2, PersistedState.tasks[t].history)
                   ELSE IF /\ pc \in {"main_inv", "after_inv"}
                           /\ pc' \notin {pc, "killed"}
                           /\ t = curTask.task_id
                   THEN /\ h2 = Append(h, h2[Len(h2)])
                        /\ h2[Len(h2)] = StepRecord(loc.inv.phase, loc.inv.after_index,
                                                    loc.inv.engine, loc'.result_ok)
                   ELSE h2 = h
                /\ IsPrefix(PersistedState.tasks[t].history,
                            PersistedState'.tasks[t].history)]_vars

\* C29 witness: the first task's history holds a failed MAIN record, then the
\* MAIN record of the fallback that succeeded, then a follow-up record.
C29_Witness ==
    /\ IsAgentflow /\ ~InFlight
    /\ Len(state.tasks[1].history) >= 3
    /\ ~state.tasks[1].history[1].ok
    /\ state.tasks[1].history[2].ok
    /\ state.tasks[1].history[3].phase = "after"

\* The handoff file of task t names the backend and the outcome of the task's
\* latest StepRecord.
HandoffIsLatest(t) ==
    LET h == state.tasks[t].history
    IN /\ handoff[t].st = "full"
       /\ handoff[t].engine = h[Len(h)].engine
       /\ handoff[t].ok = h[Len(h)].ok

\* C30: in agentflow.py, whenever no backend invocation is in flight and a task
\* has at least one StepRecord, the task's handoff file names the backend and the
\* outcome of the task's latest StepRecord; in particular it does so when the
\* next invocation, fallback or follow-up, starts.
C30_HandoffFollowsEveryInvocation ==
    (IsAgentflow /\ ~InFlight) =>
        \A t \in TaskIds : state.tasks[t].history # <<>> => HandoffIsLatest(t)

\* completed_task_ids of the state file of agent_csv_runner.py
CompletedTaskIds == IF stateFile.st = "full" THEN stateFile.doc.done_ids ELSE {}

C32_StartingCursor ==
    [][IsAgentflow =>
          LET named == {i \in 1..Len(tasks) : tasks[i].task_id = args.start_task}
          IN /\ (pc = "boot" /\ pc' # "killed") =>
                   IF args.start_task # NoStartTask
                   THEN IF named = {}
                        THEN /\ pc' = "exit" /\ exitCode' = 2
                             /\ stateFile' = stateFile /\ tmpFile' = tmpFile
                        ELSE /\ pc' = "boot_save"
                             /\ \E i \in named : cursor' = Cursor(i - 1, "main", 0)
                   ELSE IF ~args.resume
                   THEN pc' = "boot_save" /\ cursor' = Cursor(0, "main", 0)
                   ELSE /\ pc' = "loop" /\ cursor' = PersistedState.cursor
                        /\ stateFile' = stateFile
             /\ (pc = "boot_save" /\ pc' \notin {"boot_save", "killed"}) =>
                   /\ pc' = "loop" /\ cursor' = cursor
                   /\ PersistedState'.cursor = cursor]_vars

\* C32 witness: a run killed in the follow-ups of the first task was started
\* again with --resume and --start-task naming the second task, and is past its
\* start-up with the cursor at that task, in memory and in state.json.
C32_Witness ==
    /\ IsAgentflow /\ args.resume /\ args.start_task = 2
    /\ pc = "loop" /\ cursor = Cursor(1, "main", 0)
    /\ PersistedState.cursor = cursor
    /\ state.tasks[1].status = "main_ok"
    /\ state.tasks[2].history = <<>>

\* The lines retained are the last lines of the output, in order.
IsSuffixOfOutput(captured) ==
    \A i \in 1..Len(captured) : captured[i].no = loc.lines - Len(captured) + i

\* C33: in run_process, after each line of output has been processed the lines
\* retained hold at most _MAX_CAPTURE_CHARS characters in total, and they are the
\* last lines of the output, in order.
C33_CaptureIsBounded ==
    (runner = "run_process" /\ pc \in {"p_read", "p_ret"}) =>
        /\ sum_len(loc.captured) <= MAX_CAPTURE_CHARS
        /\ loc.captured_chars = sum_len(loc.captured)
        /\ IsSuffixOfOutput(loc.captured)

\* C34: in agentflow.py, once a gemini invocation for a task has failed with
\* INVALID_ARGUMENT in its output, every later gemini invocation for that task,
\* in this run or after a restart, is started without a resume token, also when
\* --gemini-resume is given.
C34_InvalidResumeIsDisabled ==
    (InFlight /\ loc.inv.engine = "gemini" /\ curTask.task_id \in invalidArg) =>
        loc.inv.resume = NONE

\* C35: in agentflow.py a state.json that exists and does not parse does not end
\* the run: load_state copies it to a backup and returns the default state, with
\* no task entries and the cursor (0, main, 0), so that without --start-task the
\* run starts from the first task; and state.json keeps its content until the
\* next save_state replaces it.
C35_CorruptStateIsSetAside ==
    [][(IsAgentflow /\ stateFile.st = "partial") =>
          /\ (pc = "boot" /\ pc' # "killed") =>
                /\ backup' = stateFile
                /\ stateFile' = stateFile
                /\ state'.tasks = DefaultState.tasks
                /\ args.start_task = NoStartTask =>
                      /\ cursor' = Cursor(0, "main", 0)
                      /\ state'.cursor = Cursor(0, "main", 0)
                      /\ pc' = IF args.resume THEN "loop" ELSE "boot_save"
          /\ stateFile' # stateFile =>
                /\ wr = "written" /\ wr' = "idle"
                /\ stateFile' = tmpFile
                /\ stateFile' = Full(state)]_vars

\* C35 witness: a run resumed over a damaged state.json has set the file aside,
\* started from the first task with an empty history, and has a backend call
\* for that task in flight while state.json still is the damaged file.
C35_Witness ==
    /\ IsAgentflow /\ args.resume /\ args.start_task = NoStartTask
    /\ InFlight /\ cursor = Cursor(0, "main", 0)
    /\ stateFile.st = "partial" /\ backup = stateFile
    /\ state.tasks[1].history = <<>>

\* C36: in agentflow.py the try order of a follow-up prompt names each backend
\* at most once, and no backend is invoked a second time for the same follow-up
\* prompt in one pass over that order.
C36_FollowUpOrderHasNoRepeats ==
    (IsAgentflow /\ pc \in {"after_call", "after_inv"}) =>
        /\ \A i, j \in 1..Len(loc.order) : i # j => loc.order[i] # loc.order[j]
        /\ \A i \in 1..(loc.k - 1) : loc.order[i] # loc.order[loc.k]

\* C37: in agentflow.py, while the stop marker is present, a checkpoint does not
\* let its step start, and the return of the backend invocation in flight is not
\* followed by another invocation: no fallback attempt of the same MAIN step or
\* follow-up prompt is started.
C37_StopAllowsNoFurtherInvocation ==
    [][(IsAgentflow /\ stop /\ pc' # pc) =>
          /\ pc \in {"main_stopchk", "after_stopchk"} => pc' \notin {"main_call", "after_call"}
          /\ pc \in {"main_inv", "after_inv"} => pc' \notin {"main_call", "after_call"}]_vars

\* The backend of the latest record with ok = true of a history, NONE without one
LatestOkEngine(h) ==
    LET oks == {i \in 1..Len(h) : h[i].ok}
    IN IF oks = {} THEN NONE ELSE h[CHOOSE i \in oks : \A j \in oks : j <= i].engine

\* C38: in agentflow.py, whenever no invocation is in flight, the last_ok_engine
\* of every task is the backend of the latest StepRecord with ok = true of the
\* task's history, and is unset when the history has no such record; the same
\* holds of the state in state.json.
C38_LastOkEngineIsLatestOk ==
    (IsAgentflow /\ ~InFlight) =>
        \A t \in TaskIds :
           /\ state.tasks[t].last_ok_engine = LatestOkEngine(state.tasks[t].history)
           /\ PersistedState.tasks[t].last_ok_engine =
                 LatestOkEngine(PersistedState.tasks[t].history)

\* C38 witness: the first task succeeded with a fallback backend and a follow-up
\* has failed with it since; last_ok_engine still names that backend.
C38_Witness ==
    /\ IsAgentflow /\ ~InFlight
    /\ LET h == state.tasks[1].history
       IN /\ Len(h) >= 3
          /\ ~h[1].ok /\ h[2].ok /\ ~h[3].ok
          /\ state.tasks[1].last_ok_engine = h[2].engine
          /\ h[2].engine # h[1].engine

\* Positions of agent_csv_runner.py inside the body of a row, up to done_ids.add
CsvTaskPcs ==
    {"c_impl_chk", "c_impl_call", "c_impl_inv", "c_impl_persist", "c_impl_next",
     "c_verify_chk", "c_verify", "c_fix_loop", "c_fix_chk", "c_fix_call", "c_fix_inv",
     "c_fix_persist", "c_fix_verify", "c_fix_switch", "c_done"} \cup CsvAfterPcs

StartingIndex ==
    IF args.start_task = NoStartTask THEN 0
    ELSE (CHOOSE i \in 1..Len(tasks) : tasks[i].task_id = args.start_task) - 1

\* The task of row i has had a backend invoked for its MAIN step.
MainHasRun(i) ==
    \E n \in 1..Len(state.tasks[tasks[i].task_id].history) :
       state.tasks[tasks[i].task_id].history[n].phase = "main"

\* C40: an agentflow.py run in which every backend invocation returns and no
\* marker is ever present ends with exit code 0 and the cursor (number of tasks,
\* main, 0) in state.json, with the MAIN step run for exactly the tasks from the
\* starting one on; and a MAIN step starts only for a task without any record,
\* when exactly the tasks between the starting one and it have had theirs, so
\* that each MAIN step runs once and in file order.
C40_RunEndsAfterEveryTask ==
    /\ <>(/\ IsAgentflow /\ pc = "exit" /\ exitCode = 0
          /\ PersistedState.cursor = Cursor(Len(tasks), "main", 0)
          /\ \A i \in 1..Len(tasks) : MainHasRun(i) <=> i - 1 >= StartingIndex)
    /\ [][(IsAgentflow /\ pc = "main_stopchk" /\ pc' = "main_call") =>
             /\ tstate.history = <<>>
             /\ \A i \in 1..Len(tasks) :
                   MainHasRun(i) <=>
                      (StartingIndex <= i - 1 /\ i - 1 < cursor.task_index)]_vars

\* C40 witness: a run has ended with exit code 0 and the final cursor in
\* state.json although the MAIN step of the first task failed with every backend.
C40_Witness ==
    /\ IsAgentflow /\ pc = "exit" /\ exitCode = 0
    /\ PersistedState.cursor = Cursor(Len(tasks), "main", 0)
    /\ state.tasks[tasks[1].task_id].status = "failed"
    /\ MainHasRun(Len(tasks))

====
